---- MODULE Spec2Model ----
(***************************************************************************)
(* Concurrency-and-consistency layer of backend/utils/database.py:         *)
(* optimistic per-document locking, the pessimistic lock built on the      *)
(* locks collection, the retrying transaction orchestrator, the cascade    *)
(* deletes, the query cache, pagination and the performance monitor, and  *)
(* the routes that enroll students and assign teachers.  Each subsystem    *)
(* has its own specification over its own variables; the variables of the  *)
(* other subsystems stay at their initial values.                          *)
(***************************************************************************)
EXTENDS Integers, Sequences, FiniteSets, TLC

VARIABLES
    \* ---- optimistic_lock_update (one contended document) ----
    doc,              \* the stored document: [exists, version, data]
    opc,              \* per caller: position inside optimistic_lock_update
    attempt,          \* per caller: loop variable `attempt`
    max_retries,      \* per caller: argument max_retries
    current_version,  \* per caller: current_doc.get("version", 0)
    ocalls,           \* per caller: number of calls started
    oret,             \* per caller: outcome of the last finished call
    updated_doc,      \* per caller: version of the document the last call returned,
                      \* NoVersion before a call returns one
    applied,          \* history: the conditional writes the store applied
    refused,          \* history: number of conditional writes that matched nothing
    successes,        \* history: number of calls that returned success
    version0,         \* history: the document's version before any call
    \* ---- pessimistic_lock_operation (the locks collection) ----
    locks,            \* mongo.db.locks: rows [id, lock_key, expires_at, owner]
    now,              \* datetime.utcnow().timestamp(), in whole time units
    lpc,              \* per caller: position inside pessimistic_lock_operation
    lock_doc,         \* per caller: the lock_doc built at entry
    lexc,             \* per caller: the exception propagating to the finally block
    lcalls,           \* per caller: number of calls started
    lret,             \* per caller: outcome of the last finished call
    contended,        \* history, per caller: a live row of another call held
                      \* the lock_key when this call ran insert_one
    inserts,          \* history, per caller: insert_one attempts of the call
    \* ---- safe_execute_transaction / transaction_session ----
    tstore,           \* committed documents the operations read and write
    tpc,              \* position inside safe_execute_transaction
    operations,       \* argument operations
    t_max_retries,    \* argument max_retries
    t_attempt,        \* loop variable `attempt`
    t_i,              \* index of the next operation of the list
    session,          \* the session of the current transaction_session()
    tbuf,             \* writes of the open transaction, not yet committed
    results,          \* the list `results` of the current attempt
    tret,             \* the value the last call returned
    tcalls,           \* number of calls started
    sessions,         \* number of sessions started so far
    tlog,             \* history: operation executions of the current call
    starts,           \* history: times the list was started in the current call
    tpre,             \* history: tstore when the current call was made
    \* ---- cascade deletes: the collections of mongo.db ----
    users,            \* per user id: [exists, courses_teaching, enrolled_courses]
    courses,          \* per course id: [exists, teacher_id, enrolled_students]
    enrollments,      \* rows [student_id, course_id]
    assignments,      \* rows [id, course_id]
    assignment_submissions,  \* rows [student_id, assignment_id, course_id]
    quizzes,          \* rows [id, course_id]
    quiz_submissions, \* rows [student_id, quiz_id]; course_id = the quiz's course
    grades,           \* rows [student_id, course_id]
    attendance,       \* rows [course_id, date]
    calendar_events,  \* rows [id, course_id, created_by, attendees]
    notifications,    \* rows [id, related_course_id, recipient_id]; no writer sets created_by
    cres,             \* the outcome of the handler that ran last
    pre_courses,      \* history: courses before the handler that ran last
    \* ---- one cascade delete, statement by statement inside its transaction ----
    cview,            \* the collections as the open transaction sees them
    cpc,              \* position in the plan: 0 = no call in flight
    croot,            \* [kind, id] of the root the call deletes
    clocal,           \* locals of the call: root document, collected ids
    cas_results,      \* the dict `results` built by the call
    cout,             \* what the last call returned or raised
    cattempts,        \* number of transactions the last call started
    \* ---- QueryCache ----
    cache,            \* self.cache: per key the stored (data, timestamp) or no entry
    ttl,              \* self.ttl
    cnow,             \* datetime.utcnow()
    clast,            \* the last method call: its arguments, what it returned and,
                      \* for invalidate_pattern, self.cache as the call found it
    \* ---- request threads on the process-wide query_cache ----
    qthreads,         \* per thread: position and locals of the call it is making
    qdata,            \* the version of the stored data cached queries read
    \* ---- paginate_query / paginate_aggregation ----
    pcoll,            \* the documents of the paginated collection
    pipeline,         \* the list object the caller passed as `pipeline`
    pcall,            \* the last call: its arguments, its locals, what it returned
    pprev,            \* history: page and data of the call before, when it had the
                      \* same arguments apart from the page
    \* ---- QueryPerformanceMonitor ----
    query_stats,      \* self.query_stats: per "collection.operation" the samples
    mnow,             \* datetime.utcnow(), in hours
    mcall,            \* the last call: a monitored function or a report
    \* ---- the routes enroll_in_course, drop_course, assign_teacher_to_course ----
    enroll_req,       \* per student: position inside enroll_in_course / drop_course
    current_enrollment, \* courses.current_enrollment, per course
    assign_req,       \* per admin request: position inside assign_teacher_to_course
    updated_at,       \* courses.updated_at, per course
    rnow              \* datetime.utcnow() of the routes

optVars == <<doc, opc, attempt, max_retries, current_version, ocalls, oret, updated_doc,
             applied, refused, successes, version0>>

lockVars == <<locks, now, lpc, lock_doc, lexc, lcalls, lret, contended, inserts>>

txnVars == <<tstore, tpc, operations, t_max_retries, t_attempt, t_i, session, tbuf,
             results, tret, tcalls, sessions, tlog, starts, tpre>>

dependents == <<enrollments, assignments, assignment_submissions, quizzes,
                quiz_submissions, grades, attendance, calendar_events, notifications>>

casVars == <<users, courses, dependents, cres, pre_courses>>

planVars == <<cview, cpc, croot, clocal, cas_results, cout, cattempts>>

cacheVars == <<cache, ttl, cnow, clast>>

threadVars == <<qthreads, qdata>>

pageVars == <<pcoll, pipeline, pcall, pprev>>

monitorVars == <<query_stats, mnow, mcall>>

routeVars == <<enroll_req, current_enrollment, assign_req, updated_at, rnow>>

vars == <<optVars, lockVars, txnVars, casVars, planVars, cacheVars, threadVars, pageVars, monitorVars, routeVars>>

\* what the steps of one subsystem leave alone
NotOpt == <<lockVars, txnVars, casVars, planVars, cacheVars, threadVars, pageVars, monitorVars, routeVars>>
NotLock == <<optVars, txnVars, casVars, planVars, cacheVars, threadVars, pageVars, monitorVars, routeVars>>
NotTxn == <<optVars, lockVars, casVars, planVars, cacheVars, threadVars, pageVars, monitorVars, routeVars>>
NotCas == <<optVars, lockVars, txnVars, planVars, cacheVars, threadVars, pageVars, monitorVars, routeVars>>
NotPlan == <<optVars, lockVars, txnVars, cres, pre_courses, cacheVars, threadVars, pageVars, monitorVars, routeVars>>
NotCache == <<optVars, lockVars, txnVars, casVars, planVars, threadVars, pageVars, monitorVars, routeVars>>
NotThreads ==
    <<optVars, lockVars, txnVars, casVars, planVars, ttl, cnow, clast, pageVars, monitorVars, routeVars>>
NotPage == <<optVars, lockVars, txnVars, casVars, planVars, cacheVars, threadVars, monitorVars, routeVars>>
\* what the steps of the routes leave alone, the cascade collections apart
NotRoute == <<optVars, lockVars, txnVars, planVars, cacheVars, threadVars, pageVars, monitorVars>>
NotMonitor == <<optVars, lockVars, txnVars, casVars, planVars, cacheVars, threadVars, pageVars, routeVars>>

None == "None"

(***************************************************************************)
(* Optimistic lock manager                                                 *)
(***************************************************************************)
Callers == {"h1", "h2"}

\* bounds of the model
MaxCalls == 2
MaxRetriesArg == 2

\* a document read without a "version" field
NoVersion == -1

\* current_doc.get("version", 0)
GetVersion(d) == IF d.version = NoVersion THEN 0 ELSE d.version

\* mutant: the update filters on _id alone
FilterMatches_IdOnly(d, v) == d.exists

\* the filter {"_id": document_id, "version": current_version} of update_one:
\* an equality on a field matches only documents that hold the field
FilterMatches(d, v) == d.exists /\ d.version # NoVersion /\ d.version = v

\* for attempt in range(max_retries): the call enters the loop or falls through
\* to the final raise
OptStart(p) ==
    /\ opc[p] = "idle"
    /\ ocalls[p] < MaxCalls
    /\ \E mr \in 0..MaxRetriesArg :
        /\ max_retries' = [max_retries EXCEPT ![p] = mr]
        /\ IF mr = 0
           THEN /\ opc' = opc
                /\ oret' = [oret EXCEPT ![p] = "OptimisticLockException"]
           ELSE /\ opc' = [opc EXCEPT ![p] = "read"]
                /\ oret' = [oret EXCEPT ![p] = None]
    /\ attempt' = [attempt EXCEPT ![p] = 0]
    /\ ocalls' = [ocalls EXCEPT ![p] = @ + 1]
    /\ current_version' = [current_version EXCEPT ![p] = 0]
    /\ updated_doc' = [updated_doc EXCEPT ![p] = NoVersion]
    /\ UNCHANGED <<doc, applied, refused, successes, version0>>
    /\ UNCHANGED NotOpt

\* mutant: no attempt is ever the last one
LastAttempt_Never(a, mr) == FALSE

\* if attempt == max_retries - 1
LastAttempt(a, mr) == a = mr - 1

\* the except clause: re-raise on the last attempt, otherwise sleep and loop
OptHandle(p, exc) ==
    IF LastAttempt(attempt[p], max_retries[p])
    THEN /\ opc' = [opc EXCEPT ![p] = "idle"]
         /\ oret' = [oret EXCEPT ![p] = exc]
         /\ attempt' = attempt
    ELSE /\ opc' = [opc EXCEPT ![p] = "read"]
         /\ oret' = oret
         /\ attempt' = [attempt EXCEPT ![p] = @ + 1]

\* current_doc = collection.find_one({"_id": document_id})
OptRead(p) ==
    /\ opc[p] = "read"
    /\ IF ~doc.exists
       THEN /\ OptHandle(p, "ValueError")
            /\ UNCHANGED current_version
       ELSE /\ current_version' = [current_version EXCEPT ![p] = GetVersion(doc)]
            /\ opc' = [opc EXCEPT ![p] = "write"]
            /\ UNCHANGED <<attempt, oret>>
    /\ UNCHANGED <<doc, max_retries, ocalls, updated_doc, applied, refused, successes,
                   version0>>
    /\ UNCHANGED NotOpt

\* collection.update_one(filter, {"$set": update_with_version})
OptWrite(p) ==
    /\ opc[p] = "write"
    /\ IF FilterMatches(doc, current_version[p])
       THEN /\ doc' = [doc EXCEPT !.version = current_version[p] + 1,
                                  !.data = <<p, ocalls[p]>>]
            /\ applied' = applied \cup
                   {[by |-> p, call |-> ocalls[p], expected |-> current_version[p],
                     stored |-> doc.version, to |-> current_version[p] + 1]}
            /\ opc' = [opc EXCEPT ![p] = "reread"]
            /\ UNCHANGED <<attempt, oret, refused>>
       ELSE /\ OptHandle(p, "OptimisticLockException")
            /\ refused' = refused + 1
            /\ UNCHANGED <<doc, applied>>
    /\ UNCHANGED <<max_retries, current_version, ocalls, updated_doc, successes,
                   version0>>
    /\ UNCHANGED NotOpt

\* updated_doc = collection.find_one(...); return {"success": True, ...}
OptReturn(p) ==
    /\ opc[p] = "reread"
    /\ opc' = [opc EXCEPT ![p] = "idle"]
    /\ oret' = [oret EXCEPT ![p] = "success"]
    /\ updated_doc' = [updated_doc EXCEPT ![p] = doc.version]
    /\ successes' = successes + 1
    /\ UNCHANGED <<doc, attempt, max_retries, current_version, ocalls, applied,
                   refused, version0>>
    /\ UNCHANGED NotOpt

\* a find_one of the call raises (connection error): the read at the top of
\* the loop, or the read of the updated document after the write was applied
OptFindFails(p) ==
    /\ opc[p] \in {"read", "reread"}
    /\ OptHandle(p, "StoreError")
    /\ UNCHANGED <<doc, max_retries, current_version, ocalls, updated_doc, applied,
                   refused, successes, version0>>
    /\ UNCHANGED NotOpt

OptInitDocs ==
    {[exists |-> FALSE, version |-> NoVersion, data |-> None],
     [exists |-> TRUE, version |-> NoVersion, data |-> None],
     [exists |-> TRUE, version |-> 0, data |-> None]}

OptNoCalls ==
    /\ opc = [p \in Callers |-> "idle"]
    /\ attempt = [p \in Callers |-> 0]
    /\ max_retries = [p \in Callers |-> 0]
    /\ current_version = [p \in Callers |-> 0]
    /\ ocalls = [p \in Callers |-> 0]
    /\ oret = [p \in Callers |-> None]
    /\ updated_doc = [p \in Callers |-> NoVersion]
    /\ applied = {}
    /\ refused = 0
    /\ successes = 0

OptInitState ==
    /\ doc \in OptInitDocs
    /\ version0 = GetVersion(doc)
    /\ OptNoCalls

\* the subsystem at rest, for the specifications of the other subsystems
OptQuiet ==
    /\ doc = [exists |-> FALSE, version |-> NoVersion, data |-> None]
    /\ version0 = 0
    /\ OptNoCalls

OptSteps ==
    \E p \in Callers : OptStart(p) \/ OptRead(p) \/ OptWrite(p) \/ OptReturn(p)

OptFaultSteps == \E p \in Callers : OptFindFails(p)

\* a call in flight is scheduled again
OptFairness ==
    \A p \in Callers : WF_vars(OptRead(p) \/ OptWrite(p) \/ OptReturn(p))

(***************************************************************************)
(* Pessimistic distributed lock                                            *)
(***************************************************************************)
LockKeys == {"course:1", "course:2"}

\* the timeout argument, in time units
LockTimeouts == {1, 2}

\* bounds of the model
MaxLockCalls == 2
MaxTime == 3

NoDoc == [id |-> None, lock_key |-> None, acquired_at |-> 0, expires_at |-> 0,
          owner |-> None]

\* a row is live while the purge would not delete it
Expired(r, t) == r.expires_at < t
Live(r, t) == ~Expired(r, t)

\* insert_one raises DuplicateKeyError when a unique index rejects the row.
\* create_indexes declares no index on the locks collection, so the only
\* unique index is the default one on _id.
DuplicateKey(row) == \E r \in locks : r.id = row.id

\* lock_id = ObjectId(); lock_doc = {...}
LockStart(p) ==
    /\ lpc[p] = "idle"
    /\ lcalls[p] < MaxLockCalls
    /\ \E k \in LockKeys, timeout \in LockTimeouts :
        lock_doc' = [lock_doc EXCEPT ![p] =
                        [id |-> <<p, lcalls[p] + 1>>, lock_key |-> k, acquired_at |-> now,
                         expires_at |-> now + timeout, owner |-> p]]
    /\ lcalls' = [lcalls EXCEPT ![p] = @ + 1]
    /\ lpc' = [lpc EXCEPT ![p] = "purge"]
    /\ lexc' = [lexc EXCEPT ![p] = None]
    /\ lret' = [lret EXCEPT ![p] = None]
    /\ contended' = [contended EXCEPT ![p] = FALSE]
    /\ inserts' = [inserts EXCEPT ![p] = 0]
    /\ UNCHANGED <<locks, now>>
    /\ UNCHANGED NotLock

\* mutant: the purge deletes the expired rows of every lock_key
AfterPurge_AnyKey(p) == {r \in locks : ~Expired(r, now)}

\* mutant: the purge deletes nothing
AfterPurge_Nothing(p) == locks

\* lock_collection.delete_many({"lock_key": lock_key, "expires_at": {"$lt": now}})
AfterPurge(p) ==
    {r \in locks : ~(r.lock_key = lock_doc[p].lock_key /\ Expired(r, now))}

LockPurge(p) ==
    /\ lpc[p] = "purge"
    /\ locks' = AfterPurge(p)
    /\ lpc' = [lpc EXCEPT ![p] = "insert"]
    /\ UNCHANGED <<now, lock_doc, lexc, lcalls, lret, contended, inserts>>
    /\ UNCHANGED NotLock

\* try: lock_collection.insert_one(lock_doc)
\* except DuplicateKeyError: raise OperationFailure(...)
LockInsert(p) ==
    /\ lpc[p] = "insert"
    /\ inserts' = [inserts EXCEPT ![p] = @ + 1]
    /\ contended' = [contended EXCEPT ![p] =
            \E r \in locks : /\ r.lock_key = lock_doc[p].lock_key
                             /\ r.id # lock_doc[p].id
                             /\ Live(r, now)]
    /\ IF DuplicateKey(lock_doc[p])
       THEN /\ lexc' = [lexc EXCEPT ![p] = "OperationFailure"]
            /\ lpc' = [lpc EXCEPT ![p] = "release"]
            /\ locks' = locks
       ELSE /\ locks' = locks \cup {lock_doc[p]}
            /\ lpc' = [lpc EXCEPT ![p] = "body"]
            /\ lexc' = lexc
    /\ UNCHANGED <<now, lock_doc, lcalls, lret>>
    /\ UNCHANGED NotLock

\* return operation(): the body returns or raises
LockBody(p) ==
    /\ lpc[p] = "body"
    /\ \E outcome \in {None, "BodyError"} : lexc' = [lexc EXCEPT ![p] = outcome]
    /\ lpc' = [lpc EXCEPT ![p] = "release"]
    /\ UNCHANGED <<locks, now, lock_doc, lcalls, lret, contended, inserts>>
    /\ UNCHANGED NotLock

\* mutant: the row is deleted only when the body returned normally
AfterRelease_OnSuccessOnly(p) ==
    IF lexc[p] = None THEN {r \in locks : r.id # lock_doc[p].id} ELSE locks

\* finally: lock_collection.delete_one({"_id": lock_id})
AfterRelease(p) == {r \in locks : r.id # lock_doc[p].id}

LockRelease(p) ==
    /\ lpc[p] = "release"
    /\ locks' = AfterRelease(p)
    /\ lret' = [lret EXCEPT ![p] = IF lexc[p] = None THEN "returned" ELSE lexc[p]]
    /\ lpc' = [lpc EXCEPT ![p] = "idle"]
    /\ UNCHANGED <<now, lock_doc, lexc, lcalls, contended, inserts>>
    /\ UNCHANGED NotLock

\* the process of a call dies inside the operation: its finally block never
\* runs and its row stays in the collection
LockCrash(p) ==
    /\ lpc[p] = "body"
    /\ lpc' = [lpc EXCEPT ![p] = "crashed"]
    /\ UNCHANGED <<locks, now, lock_doc, lexc, lcalls, lret, contended, inserts>>
    /\ UNCHANGED NotLock

\* time passes
Tick ==
    /\ now < MaxTime
    /\ now' = now + 1
    /\ UNCHANGED <<locks, lpc, lock_doc, lexc, lcalls, lret, contended, inserts>>
    /\ UNCHANGED NotLock

LockInitState ==
    /\ locks = {}
    /\ now = 0
    /\ lpc = [p \in Callers |-> "idle"]
    /\ lock_doc = [p \in Callers |-> NoDoc]
    /\ lexc = [p \in Callers |-> None]
    /\ lcalls = [p \in Callers |-> 0]
    /\ lret = [p \in Callers |-> None]
    /\ contended = [p \in Callers |-> FALSE]
    /\ inserts = [p \in Callers |-> 0]

LockSteps ==
    \/ \E p \in Callers :
          LockStart(p) \/ LockPurge(p) \/ LockInsert(p) \/ LockBody(p) \/ LockRelease(p)
    \/ Tick

(***************************************************************************)
(* Transaction orchestrator                                                *)
(***************************************************************************)
\* documents the operations write, and a document an operation requires
WriteKeys == {"a", "b"}
GuardKeys == {"g"}
TxnKeys == WriteKeys \cup GuardKeys

\* the callables a caller may pass: a write through the session, and a read
\* through the session that raises when the document is absent (the
\* find_one / "not found" pattern of the cascade operations)
Ops == [kind : {"write"}, key : WriteKeys] \cup [kind : {"require"}, key : GuardKeys]

\* bounds of the model
MaxOps == 2
MaxTxnCalls == 1
MaxRetriesTxn == 2

OpLists == UNION {[1..n -> Ops] : n \in 0..MaxOps}

Absent == 0
NoWrite == -1

\* (a write is an increment of the document, {"$inc": {key: 1}}, so that one
\* execution of the list and two leave different documents)

\* what the open transaction reads: its own writes, then the committed store
TxnRead(k) == IF k \in WriteKeys /\ tbuf[k] # NoWrite THEN tbuf[k] ELSE tstore[k]

\* the value operation(session) returns
OpResult(op) == <<op.kind, op.key, TxnRead(op.key)>>

\* mutant: results are collected in reverse order
AddResult_Prepend(rs, r) == <<r>> \o rs

\* results.append(result)
AddResult(rs, r) == Append(rs, r)

\* mutant: the loop retries without a bound
RetryDecision_Unbounded(a, mr) == "retry"

\* except Exception: on the last attempt return the error, otherwise sleep and
\* take the next value of range(max_retries); the loop running out returns
\* "Max retries exceeded"
RetryDecision(a, mr) ==
    IF a = mr - 1 THEN "return_error"
    ELSE IF a + 1 < mr THEN "retry"
    ELSE "return_exhausted"

EmptyBuf == [k \in WriteKeys |-> NoWrite]

\* the store once the writes of a transaction are committed
Flush(store, buf) ==
    [k \in TxnKeys |-> IF k \in WriteKeys /\ buf[k] # NoWrite THEN buf[k] ELSE store[k]]

\* mutant: an aborted transaction leaves its writes in the store
AfterAbort_Flush(store, buf) == Flush(store, buf)

\* session.start_transaction() left by an exception: the writes are discarded
AfterAbort(store, buf) == store

\* mutant: the call reports success whether or not the commit went through
Committed_Always(out) == TRUE

\* the return statement takes effect only if leaving the with block, which
\* commits, raised nothing
Committed(out) == out = "ok"

\* safe_execute_transaction(operations, max_retries)
TxnCall ==
    /\ tpc = "idle"
    /\ tcalls < MaxTxnCalls
    /\ \E ops \in OpLists, mr \in 0..MaxRetriesTxn :
        /\ operations' = ops
        /\ t_max_retries' = mr
        /\ IF mr = 0
           THEN /\ tpc' = "idle"
                /\ tret' = [success |-> FALSE, error |-> "Max retries exceeded",
                            results |-> <<>>, attempt |-> 0]
           ELSE /\ tpc' = "begin"
                /\ tret' = [success |-> FALSE, error |-> None, results |-> <<>>,
                            attempt |-> 0]
    /\ tcalls' = tcalls + 1
    /\ t_attempt' = 0
    /\ t_i' = 1
    /\ tbuf' = EmptyBuf
    /\ results' = <<>>
    /\ tlog' = <<>>
    /\ starts' = 0
    /\ tpre' = tstore
    /\ UNCHANGED <<tstore, session, sessions>>
    /\ UNCHANGED NotTxn

\* with DatabaseUtils.transaction_session() as session: results = []
TxnBegin ==
    /\ tpc = "begin"
    /\ sessions' = sessions + 1
    /\ session' = sessions + 1
    /\ tbuf' = EmptyBuf
    /\ results' = <<>>
    /\ t_i' = 1
    /\ starts' = starts + 1
    /\ tpc' = IF Len(operations) = 0 THEN "commit" ELSE "op"
    /\ UNCHANGED <<tstore, operations, t_max_retries, t_attempt, tret, tcalls, tlog, tpre>>
    /\ UNCHANGED NotTxn

\* an exception leaves the with block: the transaction aborts,
\* transaction_session raises TransactionException and the except clause of
\* safe_execute_transaction decides
TxnFail(err) ==
    /\ tbuf' = EmptyBuf
    /\ results' = <<>>
    /\ LET d == RetryDecision(t_attempt, t_max_retries) IN
        IF d = "retry"
        THEN /\ tpc' = "begin"
             /\ t_attempt' = t_attempt + 1
             /\ tret' = tret
        ELSE /\ tpc' = "idle"
             /\ t_attempt' = t_attempt
             /\ tret' = [success |-> FALSE,
                         error |-> IF d = "return_error" THEN err
                                   ELSE "Max retries exceeded",
                         results |-> <<>>, attempt |-> t_max_retries]

\* what operation(session) can do: a require on an absent document raises a
\* non-transient error; any store call can raise a transient one
OpOutcomes(op) ==
    IF op.kind = "require" /\ TxnRead(op.key) = Absent
    THEN {"fatal"}
    ELSE {"ok", "transient"}

\* result = operation(session); results.append(result)
TxnOp ==
    /\ tpc = "op"
    /\ LET op == operations[t_i] IN
       \E out \in OpOutcomes(op) :
        /\ tlog' = Append(tlog, [attempt |-> t_attempt, idx |-> t_i,
                                 session |-> session, outcome |-> out])
        /\ IF out = "ok"
           THEN /\ tbuf' = IF op.kind = "write"
                           THEN [tbuf EXCEPT ![op.key] = TxnRead(op.key) + 1]
                           ELSE tbuf
                /\ results' = AddResult(results,
                                  IF op.kind = "write"
                                  THEN <<op.kind, op.key, TxnRead(op.key) + 1>>
                                  ELSE OpResult(op))
                /\ t_i' = t_i + 1
                /\ tpc' = IF t_i = Len(operations) THEN "commit" ELSE "op"
                /\ tstore' = tstore
                /\ UNCHANGED <<t_attempt, tret>>
           ELSE /\ TxnFail(out)
                /\ tstore' = AfterAbort(tstore, tbuf)
                /\ t_i' = t_i
    /\ UNCHANGED <<operations, t_max_retries, session, tcalls, sessions,
                   starts, tpre>>
    /\ UNCHANGED NotTxn

\* return {...} inside the with block: the transaction commits on the way
\* out, or the commit raises and the except clause decides
TxnCommit ==
    /\ tpc = "commit"
    /\ \E out \in {"ok", "transient"} :
        /\ tstore' = IF out = "ok" THEN Flush(tstore, tbuf) ELSE AfterAbort(tstore, tbuf)
        /\ IF Committed(out)
           THEN /\ tret' = [success |-> TRUE, error |-> None, results |-> results,
                            attempt |-> t_attempt + 1]
                /\ tpc' = "idle"
                /\ tbuf' = EmptyBuf
                /\ UNCHANGED <<t_attempt, results>>
           ELSE TxnFail(out)
    /\ UNCHANGED <<operations, t_max_retries, t_i, session, tcalls, sessions, tlog,
                   starts, tpre>>
    /\ UNCHANGED NotTxn

\* another request handler inserts the document an operation requires
EnvInsert ==
    /\ \E k \in GuardKeys :
        /\ tstore[k] = Absent
        /\ tstore' = [tstore EXCEPT ![k] = 1]
    /\ UNCHANGED <<tpc, operations, t_max_retries, t_attempt, t_i, session, tbuf,
                   results, tret, tcalls, sessions, tlog, starts, tpre>>
    /\ UNCHANGED NotTxn

TxnNoCalls ==
    /\ tpc = "idle"
    /\ operations = <<>>
    /\ t_max_retries = 0
    /\ t_attempt = 0
    /\ t_i = 1
    /\ session = 0
    /\ tbuf = EmptyBuf
    /\ results = <<>>
    /\ tret = [success |-> FALSE, error |-> None, results |-> <<>>, attempt |-> 0]
    /\ tcalls = 0
    /\ sessions = 0
    /\ tlog = <<>>
    /\ starts = 0

TxnInitState ==
    /\ tstore \in [TxnKeys -> {Absent, 1}]
    /\ \A k \in WriteKeys : tstore[k] = Absent
    /\ tpre = tstore
    /\ TxnNoCalls

\* the subsystem at rest, for the specifications of the other subsystems
TxnQuiet ==
    /\ tstore = [k \in TxnKeys |-> Absent]
    /\ tpre = tstore
    /\ TxnNoCalls

TxnSteps == TxnCall \/ TxnBegin \/ TxnOp \/ TxnCommit \/ EnvInsert

(***************************************************************************)
(* Cascade delete engine                                                   *)
(***************************************************************************)
CourseIds == {"c1", "c2"}
TeacherIds == {"t1", "t2"}
StudentIds == {"s1", "s2"}
UserIds == TeacherIds \cup StudentIds
AssignmentIds == {"a1", "a2"}
QuizIds == {"q1"}
EventIds == {"e1"}
NotificationIds == {"n1"}
Dates == {"d1"}

\* user['role'], fixed at registration
Role(u) == IF u \in TeacherIds THEN "teacher" ELSE "student"

\* course_code, unique per course
CourseCode(c) == IF c = "c1" THEN "CS101" ELSE "CS102"

NoCourse == [exists |-> FALSE, teacher_id |-> None, enrolled_students |-> {}]
NoUser == [exists |-> FALSE, courses_teaching |-> {}, enrolled_courses |-> {}]

NoResult == [op |-> None, id |-> None, ok |-> FALSE, error |-> None,
             teacher_id |-> None, counts |-> <<>>, root_deleted |-> FALSE,
             courses_unassigned |-> 0, assigned_courses |-> {}]

\* [doc['_id'] for doc in mongo.db.assignments.find({"course_id": course_id})]
\* mutant: the ids are collected after the assignments were deleted
CourseAssignmentIds_AfterDelete(c) == {}

CourseAssignmentIds(c) == {a.id : a \in {x \in assignments : x.course_id = c}}

\* [doc['_id'] for doc in mongo.db.quizzes.find({"course_id": course_id})]
CourseQuizIds(c) == {q.id : q \in {x \in quizzes : x.course_id = c}}

\* update_one({"_id": teacher}, {"$pull": {"courses_teaching": course_id}}) and
\* update_many({"enrolled_courses": course_id}, {"$pull": {...}})
PullCourse(us, teacher, c) ==
    [u \in UserIds |->
        [us[u] EXCEPT !.courses_teaching = IF u = teacher THEN @ \ {c} ELSE @,
                      !.enrolled_courses = @ \ {c}]]

\* DatabaseUtils.cascade_delete_course(course_id), called without a session:
\* _delete_course_data inside one transaction_session
CascadeDeleteCourse(c) ==
    /\ pre_courses' = courses
    /\ IF ~courses[c].exists
       THEN /\ cres' = [NoResult EXCEPT !.op = "course", !.id = c,
                                         !.error = "TransactionException"]
            /\ UNCHANGED <<users, courses, dependents>>
       ELSE LET course == courses[c]
                assignment_ids == CourseAssignmentIds(c)
                quiz_ids == CourseQuizIds(c)
                del_enr == {e \in enrollments : e.course_id = c}
                del_asub == {x \in assignment_submissions : x.assignment_id \in assignment_ids}
                del_asg == {a \in assignments : a.course_id = c}
                del_qsub == {x \in quiz_submissions : x.quiz_id \in quiz_ids}
                del_quiz == {q \in quizzes : q.course_id = c}
                del_grd == {g \in grades : g.course_id = c}
                del_att == {a \in attendance : a.course_id = c}
                del_evt == {e \in calendar_events : e.course_id = c}
                del_ntf == {n \in notifications : n.related_course_id = c}
            IN  /\ enrollments' = enrollments \ del_enr
                /\ assignment_submissions' = assignment_submissions \ del_asub
                /\ assignments' = assignments \ del_asg
                /\ quiz_submissions' = quiz_submissions \ del_qsub
                /\ quizzes' = quizzes \ del_quiz
                /\ grades' = grades \ del_grd
                /\ attendance' = attendance \ del_att
                /\ calendar_events' = calendar_events \ del_evt
                /\ notifications' = notifications \ del_ntf
                /\ users' = PullCourse(users, course.teacher_id, c)
                /\ courses' = [courses EXCEPT ![c] = NoCourse]
                /\ cres' = [NoResult EXCEPT
                              !.op = "course", !.id = c, !.ok = TRUE,
                              !.teacher_id = course.teacher_id,
                              !.root_deleted = TRUE,
                              !.counts =
                                 [enrollments |-> Cardinality(del_enr),
                                  assignment_submissions |-> Cardinality(del_asub),
                                  assignments |-> Cardinality(del_asg),
                                  quiz_submissions |-> Cardinality(del_qsub),
                                  quizzes |-> Cardinality(del_quiz),
                                  grades |-> Cardinality(del_grd),
                                  attendance |-> Cardinality(del_att),
                                  calendar_events |-> Cardinality(del_evt),
                                  notifications |-> Cardinality(del_ntf)]]
    /\ UNCHANGED NotCas

\* mutant: the teacher's courses are deleted with the teacher
UnassignTeacher_DeleteCourses(cs, u) ==
    [c \in CourseIds |-> IF cs[c].exists /\ cs[c].teacher_id = u THEN NoCourse ELSE cs[c]]

\* courses.update_many({"teacher_id": user_id}, {"$unset": {"teacher_id": ""}})
UnassignTeacher(cs, u) ==
    [c \in CourseIds |->
        IF cs[c].exists /\ cs[c].teacher_id = u
        THEN [cs[c] EXCEPT !.teacher_id = None] ELSE cs[c]]

\* courses.update_many({"enrolled_students": user_id}, {"$pull": {...}})
PullStudent(cs, u) ==
    [c \in CourseIds |-> [cs[c] EXCEPT !.enrolled_students = @ \ {u}]]

\* DatabaseUtils.cascade_delete_user(user_id), called without a session:
\* _delete_user_data inside one transaction_session
CascadeDeleteUser(u) ==
    /\ pre_courses' = courses
    /\ IF ~users[u].exists
       THEN /\ cres' = [NoResult EXCEPT !.op = "user", !.id = u,
                                         !.error = "TransactionException"]
            /\ UNCHANGED <<users, courses, dependents>>
       ELSE LET student == Role(u) = "student"
                assigned == {c \in CourseIds : courses[c].exists /\ courses[c].teacher_id = u}
                del_enr == IF student THEN {e \in enrollments : e.student_id = u} ELSE {}
                del_asub == IF student
                            THEN {x \in assignment_submissions : x.student_id = u} ELSE {}
                del_qsub == IF student
                            THEN {x \in quiz_submissions : x.student_id = u} ELSE {}
                del_grd == IF student THEN {g \in grades : g.student_id = u} ELSE {}
                del_ntf == {n \in notifications : n.recipient_id = u}
                del_evt == {e \in calendar_events : e.created_by = u \/ u \in e.attendees}
            IN  /\ enrollments' = enrollments \ del_enr
                /\ assignment_submissions' = assignment_submissions \ del_asub
                /\ quiz_submissions' = quiz_submissions \ del_qsub
                /\ grades' = grades \ del_grd
                /\ courses' = IF student THEN PullStudent(courses, u)
                              ELSE UnassignTeacher(courses, u)
                /\ notifications' = notifications \ del_ntf
                /\ calendar_events' = calendar_events \ del_evt
                /\ users' = [users EXCEPT ![u] = NoUser]
                /\ UNCHANGED <<assignments, quizzes, attendance>>
                /\ cres' = [NoResult EXCEPT
                              !.op = "user", !.id = u, !.ok = TRUE,
                              !.root_deleted = TRUE,
                              !.courses_unassigned =
                                 IF student THEN 0 ELSE Cardinality(assigned),
                              !.assigned_courses =
                                 IF student THEN {} ELSE {CourseCode(c) : c \in assigned},
                              !.counts =
                                 [enrollments |-> Cardinality(del_enr),
                                  assignment_submissions |-> Cardinality(del_asub),
                                  quiz_submissions |-> Cardinality(del_qsub),
                                  grades |-> Cardinality(del_grd),
                                  notifications |-> Cardinality(del_ntf),
                                  calendar_events |-> Cardinality(del_evt)]]
    /\ UNCHANGED NotCas

\* admin route assign_teacher_to_course: the teacher and the course are looked
\* up, then assign_teacher_operations runs in a transaction
AssignTeacher(c, t) ==
    /\ users[t].exists /\ Role(t) = "teacher"
    /\ courses[c].exists
    /\ LET old == courses[c].teacher_id IN
        /\ courses' = [courses EXCEPT ![c].teacher_id = t]
        /\ users' = [u \in UserIds |->
              IF ~users[u].exists THEN users[u]
              ELSE IF u = t THEN [users[u] EXCEPT !.courses_teaching = @ \cup {c}]
              ELSE IF u = old THEN [users[u] EXCEPT !.courses_teaching = @ \ {c}]
              ELSE users[u]]
    /\ pre_courses' = courses'
    /\ cres' = NoResult
    /\ UNCHANGED dependents
    /\ UNCHANGED NotCas

\* admin route update_course with a teacher_id field: the course alone is
\* updated, no user list is touched
UpdateCourse(c, t) ==
    /\ courses[c].exists
    /\ courses[c].teacher_id # t
    /\ courses' = [courses EXCEPT ![c].teacher_id = t]
    /\ pre_courses' = courses'
    /\ cres' = NoResult
    /\ UNCHANGED <<users, dependents>>
    /\ UNCHANGED NotCas

\* candidate documents of the seed (init_db.py) and of the routes
EnrollmentDocs ==
    {[student_id |-> "s1", course_id |-> "c1"],
     [student_id |-> "s1", course_id |-> "c2"],
     [student_id |-> "s2", course_id |-> "c1"]}
GradeDocs ==
    {[student_id |-> "s1", course_id |-> "c1"],
     [student_id |-> "s2", course_id |-> "c2"]}
AssignmentDocs ==
    {[id |-> "a1", course_id |-> "c1"], [id |-> "a2", course_id |-> "c2"]}
QuizDocs == [id : QuizIds, course_id : {"c1"}]
AttendanceDocs == [course_id : {"c1"}, date : Dates]
EventDocs == [id : EventIds, course_id : {"c1"},
              created_by : {"t1"}, attendees : {{}, {"s1"}}]
NotificationDocs == [id : NotificationIds, related_course_id : {"c1"},
                     recipient_id : {"s1", "t1"}]
Submitters == {"s1"}

UniqueIds(rows) == \A x, y \in rows : x.id = y.id => x = y

\* a submission carries the course of the assignment or quiz it answers
SubmissionsOf(parents, students) ==
    {[student_id |-> s, ref |-> x.id, course_id |-> x.course_id] :
        s \in students, x \in parents}

\* one document of S, or none when S is empty
PickOne(S) == IF S = {} THEN {{}} ELSE {{x} : x \in S}

\* a seeded database: every course has a teacher; a course either has its
\* dependents (populated) or none yet; a student's enrolled_courses list holds
\* the student's enrollments (seeded) or is empty (enrolled through the route)
CasInitState ==
    /\ courses \in [CourseIds ->
          {[exists |-> TRUE, teacher_id |-> t, enrolled_students |-> {}] :
              t \in TeacherIds}]
    /\ \E populated \in SUBSET CourseIds, listed \in SUBSET StudentIds :
        /\ enrollments = {d \in EnrollmentDocs : d.course_id \in populated}
        /\ users =
              [u \in UserIds |->
                 [exists |-> TRUE,
                  courses_teaching |-> {c \in CourseIds : courses[c].teacher_id = u},
                  enrolled_courses |->
                      IF u \in listed
                      THEN {e.course_id : e \in {x \in enrollments : x.student_id = u}}
                      ELSE {}]]
        /\ assignments = {d \in AssignmentDocs : d.course_id \in populated}
        /\ quizzes = {d \in QuizDocs : d.course_id \in populated}
        /\ grades = {d \in GradeDocs : d.course_id \in populated}
        /\ attendance = {d \in AttendanceDocs : d.course_id \in populated}
        /\ calendar_events \in PickOne({d \in EventDocs : d.course_id \in populated})
        /\ notifications \in
              PickOne({d \in NotificationDocs : d.related_course_id \in populated})
    /\ UniqueIds(assignments) /\ UniqueIds(quizzes)
    /\ assignment_submissions =
          {[student_id |-> x.student_id, assignment_id |-> x.ref,
            course_id |-> x.course_id] : x \in SubmissionsOf(assignments, Submitters)}
    /\ quiz_submissions =
          {[student_id |-> x.student_id, quiz_id |-> x.ref,
            course_id |-> x.course_id] : x \in SubmissionsOf(quizzes, Submitters)}
    /\ cres = NoResult
    /\ pre_courses = courses

\* the subsystem at rest, for the specifications of the other subsystems
CasQuiet ==
    /\ users = [u \in UserIds |-> NoUser]
    /\ courses = [c \in CourseIds |-> NoCourse]
    /\ enrollments = {} /\ assignments = {} /\ assignment_submissions = {}
    /\ quizzes = {} /\ quiz_submissions = {} /\ grades = {} /\ attendance = {}
    /\ calendar_events = {} /\ notifications = {}
    /\ cres = NoResult
    /\ pre_courses = courses

CasSteps ==
    \/ \E c \in CourseIds : CascadeDeleteCourse(c)
    \/ \E u \in UserIds : CascadeDeleteUser(u)
    \/ \E c \in CourseIds, t \in TeacherIds : AssignTeacher(c, t)
    \/ \E c \in CourseIds, t \in TeacherIds \cup {None} : UpdateCourse(c, t)

(***************************************************************************)
(* Cascade delete plans, statement by statement                            *)
(***************************************************************************)
Collections == {"enrollments", "assignments", "assignment_submissions", "quizzes",
                "quiz_submissions", "grades", "attendance", "calendar_events",
                "notifications"}

\* the committed collections
Store ==
    [users |-> users, courses |-> courses, enrollments |-> enrollments,
     assignments |-> assignments, assignment_submissions |-> assignment_submissions,
     quizzes |-> quizzes, quiz_submissions |-> quiz_submissions, grades |-> grades,
     attendance |-> attendance, calendar_events |-> calendar_events,
     notifications |-> notifications]

Roots == [kind : {"course"}, id : CourseIds] \cup [kind : {"user"}, id : UserIds]
            \cup [kind : {"assignment"}, id : AssignmentIds]

Del(coll, by) == [op |-> "delete", coll |-> coll, by |-> by]
Find(coll) == [op |-> "find", coll |-> coll, by |-> "course_id"]
Upd(what) == [op |-> what, coll |-> "none", by |-> "none"]

\* the statements of _delete_course_data after the root was read
CoursePlan ==
    << Del("enrollments", "course_id"),
       Find("assignments"), Del("assignment_submissions", "assignment_ids"),
       Del("assignments", "course_id"),
       Find("quizzes"), Del("quiz_submissions", "quiz_ids"),
       Del("quizzes", "course_id"),
       Del("grades", "course_id"), Del("attendance", "course_id"),
       Del("calendar_events", "course_id"),
       Del("notifications", "related_course_id"),
       Upd("pull_teacher"), Upd("pull_students"), Upd("delete_root") >>

\* the statements of _delete_user_data for a student and for a teacher
StudentPlan ==
    << Del("enrollments", "student_id"), Del("assignment_submissions", "student_id"),
       Del("quiz_submissions", "student_id"), Del("grades", "student_id"),
       Upd("pull_enrolled_students"),
       Del("notifications", "recipient_or_creator"),
       Del("calendar_events", "creator_or_attendee"), Upd("delete_root") >>

TeacherPlan ==
    << Upd("find_assigned_courses"), Upd("unassign_courses"),
       Del("notifications", "recipient_or_creator"),
       Del("calendar_events", "creator_or_attendee"), Upd("delete_root") >>

\* the statements of _delete_assignment_data
AssignmentPlan ==
    << Del("assignment_submissions", "assignment_id"), Upd("pull_course_assignments"),
       Del("calendar_events", "related_assignment_id"),
       Del("notifications", "related_assignment_id"), Upd("delete_root") >>

\* mutant: the root is deleted by the first statement of the plan
PlanOf_RootFirst(r) ==
    <<Upd("delete_root")>> \o
        (IF r.kind = "course" THEN SubSeq(CoursePlan, 1, Len(CoursePlan) - 1)
         ELSE IF r.kind = "assignment" THEN SubSeq(AssignmentPlan, 1, Len(AssignmentPlan) - 1)
         ELSE IF Role(r.id) = "student" THEN SubSeq(StudentPlan, 1, Len(StudentPlan) - 1)
         ELSE SubSeq(TeacherPlan, 1, Len(TeacherPlan) - 1))

PlanOf(r) ==
    IF r.kind = "course" THEN CoursePlan
    ELSE IF r.kind = "assignment" THEN AssignmentPlan
    ELSE IF Role(r.id) = "student" THEN StudentPlan
    ELSE TeacherPlan

\* no writer stores related_assignment_id other than None, and created_by of a
\* notification is never written
RelatedAssignment(d) == None

\* does document d match the filter of a delete statement
Matches(d, by, id, l) ==
    CASE by = "course_id" -> d.course_id = id
      [] by = "student_id" -> d.student_id = id
      [] by = "assignment_ids" -> d.assignment_id \in l.assignment_ids
      [] by = "quiz_ids" -> d.quiz_id \in l.quiz_ids
      [] by = "assignment_id" -> d.assignment_id = id
      [] by = "related_course_id" -> d.related_course_id = id
      [] by = "related_assignment_id" -> RelatedAssignment(d) = id
      [] by = "recipient_or_creator" -> d.recipient_id = id
      [] by = "creator_or_attendee" -> d.created_by = id \/ id \in d.attendees

\* mutant: a delete_many statement matches no document
Matching_Nothing(v, st, id, l) == {}

Matching(v, st, id, l) == {d \in v[st.coll] : Matches(d, st.by, id, l)}

\* mutant: the ids of every assignment or quiz are collected
FindIds_All(v, coll, c) == {d.id : d \in v[coll]}

\* [doc['_id'] for doc in collection.find({"course_id": course_id})]
FindIds(v, coll, c) == {d.id : d \in {x \in v[coll] : x.course_id = c}}

RootExists(v, r) ==
    CASE r.kind = "course" -> v.courses[r.id].exists
      [] r.kind = "user" -> v.users[r.id].exists
      [] r.kind = "assignment" -> \E a \in v.assignments : a.id = r.id

RootDoc(v, r) ==
    CASE r.kind = "course" -> v.courses[r.id]
      [] r.kind = "user" -> v.users[r.id]
      [] r.kind = "assignment" -> CHOOSE a \in v.assignments : a.id = r.id

DeleteRoot(v, r) ==
    CASE r.kind = "course" -> [v EXCEPT !.courses[r.id] = NoCourse]
      [] r.kind = "user" -> [v EXCEPT !.users[r.id] = NoUser]
      [] r.kind = "assignment" ->
            [v EXCEPT !.assignments = {a \in @ : a.id # r.id}]

\* what one statement of the plan does to the collections the session sees
StepView(v, st, r, l) ==
    CASE st.op = "delete" ->
            [v EXCEPT ![st.coll] = @ \ Matching(v, st, r.id, l)]
      [] st.op = "pull_teacher" ->
            IF l.doc.teacher_id = None THEN v
            ELSE [v EXCEPT !.users[l.doc.teacher_id].courses_teaching = @ \ {r.id}]
      [] st.op = "pull_students" ->
            [v EXCEPT !.users =
                [u \in UserIds |-> [@[u] EXCEPT !.enrolled_courses = @ \ {r.id}]]]
      [] st.op = "pull_enrolled_students" ->
            [v EXCEPT !.courses = PullStudent(@, r.id)]
      [] st.op = "unassign_courses" ->
            IF l.assigned = {} THEN v
            ELSE [v EXCEPT !.courses = UnassignTeacher(@, r.id)]
      [] st.op = "delete_root" -> DeleteRoot(v, r)
      [] OTHER -> v

\* the locals a statement assigns
StepLocal(v, st, r, l) ==
    CASE st.op = "find" /\ st.coll = "assignments" ->
            [l EXCEPT !.assignment_ids = FindIds(v, "assignments", r.id)]
      [] st.op = "find" /\ st.coll = "quizzes" ->
            [l EXCEPT !.quiz_ids = FindIds(v, "quizzes", r.id)]
      [] st.op = "find_assigned_courses" ->
            [l EXCEPT !.assigned =
                {c \in CourseIds : v.courses[c].exists /\ v.courses[c].teacher_id = r.id}]
      [] OTHER -> l

\* the entries a statement adds to `results`
StepResults(res, v, st, r, l) ==
    CASE st.op = "delete" ->
            (st.coll :> Cardinality(Matching(v, st, r.id, l))) @@ res
      [] st.op = "unassign_courses" ->
            ("courses_unassigned" :> Cardinality(l.assigned)) @@
            ("assigned_courses" :> {CourseCode(c) : c \in l.assigned}) @@ res
      [] st.op = "delete_root" -> ("root_deleted" :> RootExists(v, r)) @@ res
      [] OTHER -> res

\* transaction_session: except Exception as e: raise TransactionException(...)
Wrap(e) == "TransactionException"

\* errors a statement or the commit of the transaction can raise
StepErrors == {"StoreError"}

NoView == <<>>
NoRoot == [kind |-> None, id |-> None]
NoLocal == [doc |-> None, assignment_ids |-> {}, quiz_ids |-> {}, assigned |-> {}]
\* `at` records the position of the plan at which the call ended
NoOut == [ok |-> FALSE, error |-> None, cause |-> None, at |-> 0, results |-> <<>>]
Failure(e, at) ==
    [ok |-> FALSE, error |-> Wrap(e), cause |-> e, at |-> at, results |-> <<>>]
Success(res, at) ==
    [ok |-> TRUE, error |-> None, cause |-> None, at |-> at, results |-> res]

SetStore(v) ==
    /\ users' = v.users /\ courses' = v.courses
    /\ enrollments' = v.enrollments /\ assignments' = v.assignments
    /\ assignment_submissions' = v.assignment_submissions
    /\ quizzes' = v.quizzes /\ quiz_submissions' = v.quiz_submissions
    /\ grades' = v.grades /\ attendance' = v.attendance
    /\ calendar_events' = v.calendar_events /\ notifications' = v.notifications

\* mutant: the statements already issued stay applied when the call fails
Abort_KeepView(store, v) == v

\* an exception leaves the `with session.start_transaction()` block: the
\* transaction is aborted and the committed collections are what they were
Abort(store, v) == store

\* cascade_delete_*(id) without a session: open the transaction and read the
\* root; a missing root raises CascadeDeleteException inside the transaction
PlanBegin(r) ==
    /\ cpc = 0
    /\ croot' = r
    /\ cattempts' = 1
    /\ cas_results' = <<>>
    /\ IF RootExists(Store, r)
       THEN /\ cview' = Store
            /\ cpc' = 1
            /\ clocal' = [NoLocal EXCEPT !.doc = RootDoc(Store, r)]
            /\ cout' = NoOut
       ELSE /\ cview' = NoView
            /\ cpc' = 0
            /\ clocal' = NoLocal
            /\ cout' = Failure("CascadeDeleteException", 0)
    /\ UNCHANGED <<users, courses, dependents>>
    /\ UNCHANGED NotPlan

\* the next statement of the plan runs in the session
PlanStep ==
    /\ cpc \in 1..Len(PlanOf(croot))
    /\ LET st == PlanOf(croot)[cpc] IN
        /\ cview' = StepView(cview, st, croot, clocal)
        /\ clocal' = StepLocal(cview, st, croot, clocal)
        /\ cas_results' = StepResults(cas_results, cview, st, croot, clocal)
    /\ cpc' = cpc + 1
    /\ UNCHANGED <<croot, cout, cattempts>>
    /\ UNCHANGED <<users, courses, dependents>>
    /\ UNCHANGED NotPlan

\* return results: the with block is left and the transaction commits
PlanCommit ==
    /\ cpc = Len(PlanOf(croot)) + 1
    /\ SetStore(cview)
    /\ cout' = Success(cas_results, cpc)
    /\ cpc' = 0 /\ cview' = NoView /\ clocal' = NoLocal /\ cas_results' = <<>>
    /\ UNCHANGED <<croot, cattempts>>
    /\ UNCHANGED NotPlan

\* a statement of the plan, or the commit, raises a store error
PlanFault ==
    /\ cpc \in 1..(Len(PlanOf(croot)) + 1)
    /\ \E e \in StepErrors : cout' = Failure(e, cpc)
    /\ SetStore(Abort(Store, cview))
    /\ cpc' = 0 /\ cview' = NoView /\ clocal' = NoLocal /\ cas_results' = <<>>
    /\ UNCHANGED <<croot, cattempts>>
    /\ UNCHANGED NotPlan

\* a seeded database in which every course has a teacher and its dependents
PlanInitState ==
    /\ courses \in [CourseIds ->
          {[exists |-> TRUE, teacher_id |-> t, enrolled_students |-> {}] :
              t \in TeacherIds}]
    /\ enrollments = EnrollmentDocs
    /\ users = [u \in UserIds |->
                  [exists |-> TRUE,
                   courses_teaching |-> {c \in CourseIds : courses[c].teacher_id = u},
                   enrolled_courses |->
                      {e.course_id : e \in {x \in enrollments : x.student_id = u}}]]
    /\ assignments = AssignmentDocs
    /\ assignment_submissions =
          {[student_id |-> x.student_id, assignment_id |-> x.ref,
            course_id |-> x.course_id] : x \in SubmissionsOf(assignments, Submitters)}
    /\ quizzes = QuizDocs
    /\ quiz_submissions =
          {[student_id |-> x.student_id, quiz_id |-> x.ref,
            course_id |-> x.course_id] : x \in SubmissionsOf(quizzes, Submitters)}
    /\ grades = GradeDocs
    /\ attendance = AttendanceDocs
    /\ \E e \in EventDocs : calendar_events = {e}
    /\ \E n \in NotificationDocs : notifications = {n}
    /\ cres = NoResult
    /\ pre_courses = courses

\* DatabaseUtils.paginate_query("courses", {"_id": c}): the matching rows
PaginateCourseById(c) ==
    LET rows == {x \in CourseIds : x = c /\ courses[x].exists}
    IN  [data |-> rows, total_count |-> Cardinality(rows)]

PlanNoCalls ==
    /\ cview = NoView /\ cpc = 0 /\ croot = NoRoot /\ clocal = NoLocal
    /\ cas_results = <<>> /\ cout = NoOut /\ cattempts = 0

PlanSteps ==
    \/ \E r \in Roots : PlanBegin(r)
    \/ PlanStep
    \/ PlanCommit
    \/ PlanFault

(***************************************************************************)
(* Query cache                                                             *)
(***************************************************************************)
\* cache keys and patterns are strings, written as sequences of characters
CacheKeys == {<<"c", "1">>, <<"c", "2">>, <<"u", "1">>}
Patterns == {<<"c">>, <<"1">>, <<"u", "1">>, <<"x">>}
CacheValues == {"v1", "v2"}
TTLs == {1, 2}

\* bound of the model: the clock stops here
MaxNow == 3

NoEntry == [present |-> FALSE, data |-> None, timestamp |-> 0]
Entry(v, t) == [present |-> TRUE, data |-> v, timestamp |-> t]

\* mutant: only a key that starts with the pattern matches
Contains_Prefix(k, pattern) ==
    Len(pattern) <= Len(k) /\ SubSeq(k, 1, Len(pattern)) = pattern

\* `pattern in k`
Contains(k, pattern) ==
    \E i \in 0..(Len(k) - Len(pattern)) : SubSeq(k, i + 1, i + Len(pattern)) = pattern

\* mutant: an entry exactly ttl old is still served
Fresh_Inclusive(timestamp, t, life) == t - timestamp <= life

\* datetime.utcnow() - timestamp < timedelta(seconds=self.ttl)
Fresh(timestamp, t, life) == t - timestamp < life

\* QueryCache.get(key): the value returned, None for a miss
GetResult(c, k, t, life) ==
    IF c[k].present /\ Fresh(c[k].timestamp, t, life) THEN c[k].data ELSE None

\* QueryCache.get(key): the cache afterwards
GetCache(c, k, t, life) ==
    IF c[k].present /\ ~Fresh(c[k].timestamp, t, life)
    THEN [c EXCEPT ![k] = NoEntry] ELSE c

Called(op, k, v, found, ret) ==
    [op |-> op, key |-> k, value |-> v, found |-> found, ret |-> ret, at |-> cnow,
     before |-> <<>>]

CacheGet(k) ==
    /\ cache' = GetCache(cache, k, cnow, ttl)
    /\ clast' = Called("get", k, None, cache[k], GetResult(cache, k, cnow, ttl))
    /\ UNCHANGED <<ttl, cnow>>
    /\ UNCHANGED NotCache

\* QueryCache.set(key, value)
CacheSet(k, v) ==
    /\ cache' = [cache EXCEPT ![k] = Entry(v, cnow)]
    /\ clast' = Called("set", k, v, cache[k], None)
    /\ UNCHANGED <<ttl, cnow>>
    /\ UNCHANGED NotCache

\* QueryCache.clear()
CacheClear ==
    /\ cache' = [k \in CacheKeys |-> NoEntry]
    /\ clast' = Called("clear", <<>>, None, NoEntry, None)
    /\ UNCHANGED <<ttl, cnow>>
    /\ UNCHANGED NotCache

\* what the wrapped function may return: a value, or None (a find_one that
\* matched nothing)
FuncResults == CacheValues \cup {None}

\* cached_query(cache_key)(func)(...), called by one thread: the wrapper reads
\* the cache, returns what it found unless that is None, and otherwise runs
\* func and stores its result
CachedQuery(k, result) ==
    LET cached_result == GetResult(cache, k, cnow, ttl)
        after_get == GetCache(cache, k, cnow, ttl)
    IN  /\ IF cached_result # None
           THEN /\ cache' = after_get
                /\ clast' = Called("cached_query", k, None, cache[k], cached_result)
           ELSE /\ cache' = [after_get EXCEPT ![k] = Entry(result, cnow)]
                /\ clast' = Called("cached_query_executed", k, result, cache[k], result)
        /\ UNCHANGED <<ttl, cnow>>
        /\ UNCHANGED NotCache

\* QueryCache.invalidate_pattern(pattern)
CacheInvalidatePattern(pattern) ==
    /\ cache' = [k \in CacheKeys |->
                    IF cache[k].present /\ Contains(k, pattern) THEN NoEntry ELSE cache[k]]
    /\ clast' = [Called("invalidate_pattern", pattern, None, NoEntry, None)
                    EXCEPT !.before = cache]
    /\ UNCHANGED <<ttl, cnow>>
    /\ UNCHANGED NotCache

\* time passes
CacheTick ==
    /\ cnow < MaxNow
    /\ cnow' = cnow + 1
    /\ clast' = Called("tick", <<>>, None, NoEntry, None)
    /\ UNCHANGED <<cache, ttl>>
    /\ UNCHANGED NotCache

\* the request threads of the server (app.run serves each request on its own)
Threads == {"r1", "r2"}

\* a thread that is not inside a call on the cache
IdleThread ==
    [pc |-> "idle", op |-> None, key |-> <<>>, value |-> None, patterns |-> <<>>,
     done |-> 0, used |-> 0, visited |-> {}, keys_to_remove |-> <<>>, err |-> None]

ThreadsIdle ==
    /\ qthreads = [p \in Threads |-> IdleThread]
    /\ qdata = 0

NoCall == [op |-> None, key |-> <<>>, value |-> None, found |-> NoEntry,
           ret |-> None, at |-> 0, before |-> <<>>]

\* QueryCache(ttl_seconds): an empty cache
CacheInitState ==
    /\ cache = [k \in CacheKeys |-> NoEntry]
    /\ ttl \in TTLs
    /\ cnow = 0
    /\ clast = NoCall
    /\ ThreadsIdle

CacheQuiet ==
    /\ cache = [k \in CacheKeys |-> NoEntry]
    /\ ttl = 1
    /\ cnow = 0
    /\ clast = NoCall
    /\ ThreadsIdle

CacheSteps ==
    \/ \E k \in CacheKeys : CacheGet(k)
    \/ \E k \in CacheKeys, v \in CacheValues : CacheSet(k, v)
    \/ CacheClear
    \/ \E pattern \in Patterns : CacheInvalidatePattern(pattern)
    \/ CacheTick

(***************************************************************************)
(* Query cache under concurrent requests: the methods statement by         *)
(* statement.  One dict operation (a membership test, a subscript, a       *)
(* store, a del, one step of the key iterator) is one step; the            *)
(* interpreter may switch threads between any two of them.                 *)
(***************************************************************************)
\* bound of the model: writes to the stored data
MaxWrites == 1

\* the patterns a writing route invalidates, in order: delete_course
\* ('courses', 'enrollments') and assign_teacher_to_course ('courses', 'users')
RoutePatterns == {<< <<"c">>, <<"x">> >>, << <<"c">>, <<"u", "1">> >>}

\* the keys of self.cache
Present(c) == {k \in CacheKeys : c[k].present}

\* the keys, the patterns and the value the concurrent requests use
ThreadKeys == {<<"c", "1">>, <<"u", "1">>}
ThreadPatterns == {<<"c">>, <<"1">>}
ThreadValues == {"v1"}

\* the call ends: its locals go; what stays is which call it was, the error it
\* raised and, for a writing route, what it wrote and invalidated
Finish(t, err) ==
    [IdleThread EXCEPT !.op = t.op, !.err = err,
                       !.value = IF t.op = "write" THEN t.value ELSE None,
                       !.patterns = t.patterns, !.done = t.done]

\* QueryCache.get returns: to the caller, or into cached_query's wrapper
\* (`if cached_result is not None: return cached_result`)
GetReturns(t, hit) ==
    IF t.op = "cached_query" /\ ~hit
    THEN [t EXCEPT !.pc = "cq_func"]
    ELSE Finish(t, None)

\* `[k for k in self.cache.keys() ...]` begins: the iterator notes the size
StartIteration(t, pattern) ==
    [t EXCEPT !.pc = "inv_iter", !.key = pattern, !.used = Cardinality(Present(cache)),
              !.visited = {}, !.keys_to_remove = <<>>]

\* invalidate_pattern returns: a writing route goes on to its next pattern
InvalidateReturns(t) ==
    IF t.op = "write" /\ t.done < Len(t.patterns)
    THEN [t EXCEPT !.pc = "w_inv", !.key = <<>>, !.used = 0, !.visited = {}]
    ELSE Finish(t, None)

QStep(p, t) ==
    /\ qthreads' = [qthreads EXCEPT ![p] = t]
    /\ UNCHANGED NotThreads

\* a request calls query_cache.get(key)
QCallGet(p, k) ==
    /\ qthreads[p].pc = "idle"
    /\ QStep(p, [IdleThread EXCEPT !.pc = "get_in", !.op = "get", !.key = k])
    /\ UNCHANGED <<cache, qdata>>

\* a request calls query_cache.set(key, value): one dict store
QSet(p, k, v) ==
    /\ qthreads[p].pc = "idle"
    /\ cache' = [cache EXCEPT ![k] = Entry(v, cnow)]
    /\ QStep(p, [IdleThread EXCEPT !.op = "set", !.key = k, !.value = v])
    /\ UNCHANGED qdata

\* a request calls query_cache.invalidate_pattern(pattern)
QCallInvalidate(p, pattern) ==
    /\ qthreads[p].pc = "idle"
    /\ QStep(p, StartIteration([IdleThread EXCEPT !.op = "invalidate_pattern"], pattern))
    /\ UNCHANGED <<cache, qdata>>

\* `if key in self.cache:`
QGetIn(p) ==
    LET t == qthreads[p] IN
    /\ t.pc = "get_in"
    /\ QStep(p, IF cache[t.key].present
                THEN [t EXCEPT !.pc = "get_read"]
                ELSE GetReturns(t, FALSE))
    /\ UNCHANGED <<cache, qdata>>

\* `data, timestamp = self.cache[key]` and the comparison with the TTL
QGetRead(p) ==
    LET t == qthreads[p]
        e == cache[t.key]
    IN  /\ t.pc = "get_read"
        /\ QStep(p, IF ~e.present THEN Finish(t, "KeyError")
                    ELSE IF Fresh(e.timestamp, cnow, ttl) THEN GetReturns(t, TRUE)
                    ELSE [t EXCEPT !.pc = "get_del"])
        /\ UNCHANGED <<cache, qdata>>

\* `del self.cache[key]` of an expired entry, then `return None`
QGetDel(p) ==
    LET t == qthreads[p] IN
    /\ t.pc = "get_del"
    /\ IF cache[t.key].present
       THEN /\ cache' = [cache EXCEPT ![t.key] = NoEntry]
            /\ QStep(p, GetReturns(t, FALSE))
       ELSE /\ cache' = cache
            /\ QStep(p, Finish(t, "KeyError"))
    /\ UNCHANGED qdata

\* one step of the iteration over self.cache.keys(): it fails when the dict
\* changed size since the iteration began, otherwise it yields a key not
\* yielded yet, and `pattern in k` decides whether the key is collected
QInvNext(p) ==
    LET t == qthreads[p]
        rest == Present(cache) \ t.visited
    IN  /\ t.pc = "inv_iter"
        /\ IF Cardinality(Present(cache)) # t.used
           THEN QStep(p, Finish(t, "RuntimeError"))
           ELSE IF rest = {}
           THEN QStep(p, [t EXCEPT !.pc = "inv_del"])
           ELSE \E k \in rest :
                    QStep(p, [t EXCEPT !.visited = @ \cup {k},
                                       !.keys_to_remove =
                                           IF Contains(k, t.key) THEN Append(@, k) ELSE @])
        /\ UNCHANGED <<cache, qdata>>

\* `for key in keys_to_remove: del self.cache[key]`
QInvDel(p) ==
    LET t == qthreads[p] IN
    /\ t.pc = "inv_del"
    /\ IF t.keys_to_remove = <<>>
       THEN /\ cache' = cache
            /\ QStep(p, InvalidateReturns(t))
       ELSE LET k == Head(t.keys_to_remove) IN
            IF cache[k].present
            THEN /\ cache' = [cache EXCEPT ![k] = NoEntry]
                 /\ QStep(p, [t EXCEPT !.keys_to_remove = Tail(@)])
            ELSE /\ cache' = cache
                 /\ QStep(p, Finish(t, "KeyError"))
    /\ UNCHANGED qdata

\* a request calls a function decorated with cached_query(cache_key)
QCallCachedQuery(p, k) ==
    /\ qthreads[p].pc = "idle"
    /\ QStep(p, [IdleThread EXCEPT !.pc = "get_in", !.op = "cached_query", !.key = k])
    /\ UNCHANGED <<cache, qdata>>

\* `result = func(*args, **kwargs)`: the query reads the stored data
QFunc(p) ==
    LET t == qthreads[p] IN
    /\ t.pc = "cq_func"
    /\ QStep(p, [t EXCEPT !.pc = "cq_set", !.value = qdata])
    /\ UNCHANGED <<cache, qdata>>

\* `query_cache.set(cache_key, result)` and `return result`
QCachedSet(p) ==
    LET t == qthreads[p] IN
    /\ t.pc = "cq_set"
    /\ cache' = [cache EXCEPT ![t.key] = Entry(t.value, cnow)]
    /\ QStep(p, Finish(t, None))
    /\ UNCHANGED qdata

\* a writing route: its transaction commits
QWrite(p, patterns) ==
    /\ qthreads[p].pc = "idle"
    /\ qdata < MaxWrites
    /\ qdata' = qdata + 1
    /\ QStep(p, [IdleThread EXCEPT !.pc = "w_inv", !.op = "write", !.value = qdata + 1,
                                   !.patterns = patterns])
    /\ UNCHANGED cache

\* the writing route calls query_cache.invalidate_pattern with its next pattern
QWriteInvalidate(p) ==
    LET t == qthreads[p] IN
    /\ t.pc = "w_inv"
    /\ QStep(p, StartIteration([t EXCEPT !.done = @ + 1], t.patterns[t.done + 1]))
    /\ UNCHANGED <<cache, qdata>>

\* the statements of QueryCache, whoever called
QMethodSteps ==
    \E p \in Threads :
        \/ QGetIn(p)
        \/ QGetRead(p)
        \/ QGetDel(p)
        \/ QInvNext(p)
        \/ QInvDel(p)

\* requests that call the cache directly
ThreadSteps ==
    \/ \E p \in Threads, k \in ThreadKeys : QCallGet(p, k)
    \/ \E p \in Threads, k \in ThreadKeys, v \in ThreadValues : QSet(p, k, v)
    \/ \E p \in Threads, pattern \in ThreadPatterns : QCallInvalidate(p, pattern)
    \/ QMethodSteps
    \/ CacheTick

\* requests that read through cached_query while routes write and invalidate
StaleSteps ==
    \/ \E p \in Threads, k \in ThreadKeys : QCallCachedQuery(p, k)
    \/ \E p \in Threads : QFunc(p)
    \/ \E p \in Threads : QCachedSet(p)
    \/ \E p \in Threads, patterns \in RoutePatterns : QWrite(p, patterns)
    \/ \E p \in Threads : QWriteInvalidate(p)
    \/ QMethodSteps
    \/ CacheTick

(***************************************************************************)
(* Pagination                                                              *)
(***************************************************************************)
\* the documents a collection may hold: _id and a field several documents share
PageDocs == {[id |-> i, department |-> (i + 1) \div 2] : i \in {1, 2, 3, 4, 5}}
PrefixSizes == {0, 1, 2, 3, 4, 5}
Pages == {1, 2, 3, 4}
PerPages == {1, 2, 100}
SortFields == {"_id", "department"}
SortDirections == {1, -1}

\* `query`: {} or an equality filter on the shared field
Queries == {<<>>, <<2>>}

\* collection.find(query) / count_documents(query): the matching documents
Filter(query, docs) ==
    IF query = <<>> THEN docs ELSE {d \in docs : d.department = query[1]}

Key(d, field) == IF field = "_id" THEN d.id ELSE d.department

\* the documents that may come first under .sort(sort_field, sort_direction)
First(S, field, direction) ==
    {d \in S : \A e \in S : direction * Key(d, field) <= direction * Key(e, field)}

\* .sort(sort_field, sort_direction): every order the store may return;
\* documents that agree on the sort field come in any order
RECURSIVE Sorted(_, _, _)
Sorted(S, field, direction) ==
    IF S = {} THEN {<<>>}
    ELSE UNION {{<<d>> \o rest : rest \in Sorted(S \ {d}, field, direction)} :
                   d \in First(S, field, direction)}

\* .skip(n) / {"$skip": n}
Skip(rows, n) == SubSeq(rows, n + 1, Len(rows))

\* .limit(n) / {"$limit": n}; limit(0) is no limit
Limit(rows, n) == IF n = 0 \/ n >= Len(rows) THEN rows ELSE SubSeq(rows, 1, n)

\* serialize_docs: the documents by their _id
Serialize(rows) == [i \in 1..Len(rows) |-> rows[i].id]

\* mutant: the last, partly filled page is not counted
TotalPages_Floor(total_count, per_page) == total_count \div per_page

\* (total_count + per_page - 1) // per_page
TotalPages(total_count, per_page) == (total_count + per_page - 1) \div per_page

\* `x if cond else None`
Optional(cond, x) == IF cond THEN <<x>> ELSE <<>>

\* the dict under "pagination"
Pagination(page, per_page, total_count) ==
    LET total_pages == TotalPages(total_count, per_page)
        has_next == page < total_pages
        has_prev == page > 1
    IN  [page |-> page, per_page |-> per_page, total_count |-> total_count,
         total_pages |-> total_pages, has_next |-> has_next, has_prev |-> has_prev,
         next_page |-> Optional(has_next, page + 1),
         prev_page |-> Optional(has_prev, page - 1)]

\* aggregation stages
MatchStage == [op |-> "$match", arg |-> 2]
CountStage == [op |-> "$count", arg |-> 0]
SkipStage(n) == [op |-> "$skip", arg |-> n]
LimitStage(n) == [op |-> "$limit", arg |-> n]

\* the pipelines callers pass
Pipelines == {<<>>, <<MatchStage>>}

\* one stage applied to the rows that reach it; $count yields one row, and
\* none when no row reaches it
Stage(st, rows) ==
    IF st.op = "$match" THEN SelectSeq(rows, LAMBDA d : d.department = st.arg)
    ELSE IF st.op = "$count"
         THEN IF rows = <<>> THEN <<>> ELSE <<[total |-> Len(rows)]>>
    ELSE IF st.op = "$skip" THEN Skip(rows, st.arg)
    ELSE Limit(rows, st.arg)

\* collection.aggregate(pipeline) over the documents in the order the store scans them
RECURSIVE Aggregate(_, _)
Aggregate(pl, rows) ==
    IF pl = <<>> THEN rows ELSE Aggregate(Tail(pl), Stage(Head(pl), rows))

\* mutant: the stages are appended to the caller's list itself
Plus_InPlace(list, stages) == [result |-> list \o stages, operand |-> list \o stages]

\* `pipeline + [...]`: a new list; the operand stays as it was
Plus(list, stages) == [result |-> list \o stages, operand |-> list]

NoPageCall ==
    [fn |-> None, query |-> <<>>, page |-> 0, per_page |-> 0, sort_field |-> None,
     sort_direction |-> 0, data |-> <<>>, pagination |-> <<>>,
     pipeline_arg |-> <<>>, count_pipeline |-> <<>>, paginated_pipeline |-> <<>>]

NoPrev == [page |-> 0, data |-> <<>>]

\* the call before, if it asked for another page of the same listing
Previous(fn, query, per_page, field, direction, pl) ==
    IF /\ pcall.fn = fn /\ pcall.query = query /\ pcall.per_page = per_page
       /\ pcall.sort_field = field /\ pcall.sort_direction = direction
       /\ pcall.pipeline_arg = pl
    THEN [page |-> pcall.page, data |-> pcall.data]
    ELSE NoPrev

\* DatabaseUtils.paginate_query(collection_name, query, page, per_page, sort_field, sort_direction)
PaginateQuery(query, page, per_page, field, direction) ==
    LET skip == (page - 1) * per_page
        total_count == Cardinality(Filter(query, pcoll))
    IN  /\ \E rows \in Sorted(Filter(query, pcoll), field, direction) :
              pcall' = [NoPageCall EXCEPT
                           !.fn = "paginate_query", !.query = query, !.page = page,
                           !.per_page = per_page, !.sort_field = field,
                           !.sort_direction = direction,
                           !.data = Serialize(Limit(Skip(rows, skip), per_page)),
                           !.pagination = Pagination(page, per_page, total_count)]
        /\ pprev' = Previous("paginate_query", query, per_page, field, direction, <<>>)
        /\ UNCHANGED <<pcoll, pipeline>>
        /\ UNCHANGED NotPage

\* DatabaseUtils.paginate_aggregation(collection_name, pipeline, page, per_page)
PaginateAggregation(pl, page, per_page) ==
    LET counting == Plus(pl, <<CountStage>>)
        skip == (page - 1) * per_page
        paginating == Plus(counting.operand, <<SkipStage(skip), LimitStage(per_page)>>)
    IN  \E scan \in Sorted(pcoll, "department", 1) :
            LET count_result == Aggregate(counting.result, scan)
                total_count == IF count_result # <<>> THEN count_result[1].total ELSE 0
            IN  /\ pcall' = [NoPageCall EXCEPT
                                 !.fn = "paginate_aggregation", !.page = page,
                                 !.per_page = per_page, !.pipeline_arg = pl,
                                 !.count_pipeline = counting.result,
                                 !.paginated_pipeline = paginating.result,
                                 !.data = Aggregate(paginating.result, scan),
                                 !.pagination = Pagination(page, per_page, total_count)]
                /\ pipeline' = paginating.operand
                /\ pprev' = Previous("paginate_aggregation", <<>>, per_page, None, 0, pl)
                /\ UNCHANGED pcoll
                /\ UNCHANGED NotPage

\* a collection of the first n documents; no call made yet
PageInitState ==
    /\ \E n \in PrefixSizes : pcoll = {d \in PageDocs : d.id <= n}
    /\ pipeline = <<>>
    /\ pcall = NoPageCall
    /\ pprev = NoPrev

PageQuiet ==
    /\ pcoll = {}
    /\ pipeline = <<>>
    /\ pcall = NoPageCall
    /\ pprev = NoPrev

PageSteps ==
    \/ \E query \in Queries, page \in Pages, per_page \in PerPages,
          field \in SortFields, direction \in SortDirections :
            PaginateQuery(query, page, per_page, field, direction)
    \/ \E pl \in Pipelines, page \in Pages, per_page \in PerPages :
            PaginateAggregation(pl, page, per_page)

(***************************************************************************)
(* Performance monitor                                                     *)
(***************************************************************************)
\* self.slow_query_threshold = 1.0, in seconds
SlowQueryThreshold == 1

\* durations in seconds: below, at and above the threshold
Durations == {0, 1, 2}
Hours == {0, 1, 2}
HoursBack == {1, 2}
SampleCounts == {0, 1, 2}

\* the keys f"{collection}.{operation}" of one monitored function, which
\* is recorded as operation on success and as f"{operation}_error" on failure
StatKey(outcome) == IF outcome = "ok" THEN "courses.find" ELSE "courses.find_error"
StatKeys == {StatKey("ok"), StatKey("error")}

\* what the monitored function does: it returns its result or raises
Outcomes == {"ok", "error"}

\* where record_query fails, if it does: in the append or in logging.warning
RecordFaults == {"none", "append", "log"}

\* mongo.db.slow_queries: only log_slow_query inserts into it, and nothing calls it
slow_queries == {}

Sample(duration) == [duration |-> duration, timestamp |-> mnow]

\* record_query: self.query_stats[key].append(...), then the warning when
\* duration > self.slow_query_threshold; the value is the stats afterwards and
\* whether the call raised
RecordQueryOutcome(stats, key, duration, fault) ==
    LET appended == [stats EXCEPT ![key] = Append(@, Sample(duration))] IN
    IF fault = "append" THEN [stats |-> stats, raised |-> TRUE]
    ELSE IF fault = "log" /\ duration > SlowQueryThreshold
         THEN [stats |-> appended, raised |-> TRUE]
    ELSE [stats |-> appended, raised |-> FALSE]

RECURSIVE SumDurations(_)
SumDurations(samples) ==
    IF samples = <<>> THEN 0 ELSE Head(samples).duration + SumDurations(Tail(samples))

\* the entry of get_performance_report for one key; avg_duration is the
\* quotient sum(durations) / len(durations), kept as numerator and denominator
ReportEntry(samples) ==
    [count |-> Len(samples),
     avg_duration |-> <<SumDurations(samples), Len(samples)>>,
     max_duration |-> CHOOSE d \in Durations :
                         /\ \E i \in DOMAIN samples : samples[i].duration = d
                         /\ \A i \in DOMAIN samples : samples[i].duration <= d,
     min_duration |-> CHOOSE d \in Durations :
                         /\ \E i \in DOMAIN samples : samples[i].duration = d
                         /\ \A i \in DOMAIN samples : samples[i].duration >= d,
     slow_queries |-> Cardinality({i \in DOMAIN samples :
                                     samples[i].duration > SlowQueryThreshold})]

\* QueryPerformanceMonitor.get_performance_report(): every key with samples
GetPerformanceReport(stats) ==
    [key \in {k \in StatKeys : stats[k] # <<>>} |-> ReportEntry(stats[key])]

NoMonitorCall ==
    [fn |-> None, func |-> None, wrapped |-> None, hours_back |-> 0,
     slow_query_count |-> 0, stats |-> <<>>, at |-> 0]

\* a call of a function decorated with monitor_query_performance: func returns
\* or raises, record_query runs, and a failure of record_query in the try block
\* lands in the except clause, which records again and raises it
MonitoredCall(outcome, duration, fault, fault_again) ==
    LET first == RecordQueryOutcome(query_stats, StatKey(outcome), duration, fault)
        again == RecordQueryOutcome(first.stats, StatKey("error"), duration, fault_again)
        wrapped == IF outcome = "ok"
                   THEN IF first.raised THEN "RecordError" ELSE "ok"
                   ELSE IF first.raised THEN "RecordError" ELSE "error"
    IN  /\ \A k \in StatKeys : Len(query_stats[k]) + 1 \in SampleCounts
        /\ query_stats' = IF outcome = "ok" /\ first.raised THEN again.stats ELSE first.stats
        /\ mcall' = [NoMonitorCall EXCEPT !.fn = "monitored", !.func = outcome,
                                          !.wrapped = wrapped, !.at = mnow]
        /\ UNCHANGED mnow
        /\ UNCHANGED NotMonitor

\* DatabaseUtils.get_performance_metrics(hours_back)
GetPerformanceMetrics(hours_back) ==
    /\ mcall' = [NoMonitorCall EXCEPT
                    !.fn = "report", !.hours_back = hours_back, !.at = mnow,
                    !.slow_query_count =
                        Cardinality({q \in slow_queries : q.timestamp >= mnow - hours_back}),
                    !.stats = GetPerformanceReport(query_stats)]
    /\ UNCHANGED <<query_stats, mnow>>
    /\ UNCHANGED NotMonitor

\* an hour passes
MonitorTick ==
    /\ mnow + 1 \in Hours
    /\ mnow' = mnow + 1
    /\ UNCHANGED <<query_stats, mcall>>
    /\ UNCHANGED NotMonitor

\* performance_monitor = QueryPerformanceMonitor()
MonitorInitState ==
    /\ query_stats = [k \in StatKeys |-> <<>>]
    /\ mnow = 0
    /\ mcall = NoMonitorCall

MonitorSteps ==
    \/ \E outcome \in Outcomes, duration \in Durations,
          fault \in RecordFaults, fault_again \in RecordFaults :
            MonitoredCall(outcome, duration, fault, fault_again)
    \/ \E hours_back \in HoursBack : GetPerformanceMetrics(hours_back)
    \/ MonitorTick

(***************************************************************************)
(* Routes over the cascade collections, one database call per step:        *)
(* enroll_in_course, drop_course and assign_teacher_to_course              *)
(***************************************************************************)
\* courses.max_capacity of the seeded courses
MaxCapacity(c) == 2

\* datetime.utcnow() as the routes see it
Times == {0, 1}

Row(s, c, st) == [student_id |-> s, course_id |-> c, status |-> st]

\* enrollments.find({"course_id": c, "status": "enrolled"})
Enrolled(c) == {e \in enrollments : e.course_id = c /\ e.status = "enrolled"}

\* enrollments.find_one({"student_id": s, "course_id": c})
Existing(s, c) == {e \in enrollments : e.student_id = s /\ e.course_id = c}

\* enrollments.update_one({"_id": e["_id"]}, {"$set": {"status": st}}), which
\* matches nothing when the row is gone
SetStatus(es, e, st) ==
    IF e \in es THEN (es \ {e}) \cup {[e EXCEPT !.status = st]} ELSE es

IdleRequest == [pc |-> "idle", course_id |-> None, existing |-> <<>>]

\* the route returns jsonify(...), code
Respond(s, code) == [enroll_req EXCEPT ![s] = IdleRequest]

Goto(s, c, pc, existing) ==
    [enroll_req EXCEPT ![s] = [pc |-> pc, course_id |-> c, existing |-> existing]]

\* enroll_in_course: courses.find_one({"_id": course_id}) and the checks on
\* the document it returned
EnrollFindCourse(s, c) ==
    /\ enroll_req[s].pc = "idle"
    /\ users[s].exists
    /\ enroll_req' =
          IF ~courses[c].exists THEN Respond(s, 404)
          ELSE IF current_enrollment[c] >= MaxCapacity(c)
               THEN Respond(s, 400)
               ELSE Goto(s, c, "find_enrollment", <<>>)
    /\ UNCHANGED <<casVars, current_enrollment, assign_req, updated_at, rnow>>
    /\ UNCHANGED NotRoute

\* enroll_in_course: existing_enrollment = enrollments.find_one({student_id,
\* course_id}) and the branch on its status
EnrollFindExisting(s) ==
    /\ enroll_req[s].pc = "find_enrollment"
    /\ LET c == enroll_req[s].course_id
           found == Existing(s, c)
       IN  enroll_req' =
              IF found = {} THEN Goto(s, c, "insert", <<>>)
              ELSE LET e == CHOOSE x \in found : TRUE IN
                   IF e.status = "dropped" THEN Goto(s, c, "reenroll", <<e>>)
                   ELSE Respond(s, 400)
    /\ UNCHANGED <<casVars, current_enrollment, assign_req, updated_at, rnow>>
    /\ UNCHANGED NotRoute

\* enroll_in_course: enrollments.insert_one({..., "status": "enrolled"})
EnrollInsert(s) ==
    /\ enroll_req[s].pc = "insert"
    /\ LET c == enroll_req[s].course_id IN
        /\ enrollments' = enrollments \cup {Row(s, c, "enrolled")}
        /\ enroll_req' = Goto(s, c, "inc", <<>>)
    /\ UNCHANGED <<users, courses, assignments, assignment_submissions, quizzes,
                   quiz_submissions, grades, attendance, calendar_events,
                   notifications, cres, pre_courses>>
    /\ UNCHANGED <<current_enrollment, assign_req, updated_at, rnow>>
    /\ UNCHANGED NotRoute

\* enroll_in_course: enrollments.update_one({"_id": existing_enrollment["_id"]},
\* {"$set": {"status": "enrolled"}})
EnrollReactivate(s) ==
    /\ enroll_req[s].pc = "reenroll"
    /\ LET c == enroll_req[s].course_id IN
        /\ enrollments' = SetStatus(enrollments, enroll_req[s].existing[1], "enrolled")
        /\ enroll_req' = Goto(s, c, "inc", <<>>)
    /\ UNCHANGED <<users, courses, assignments, assignment_submissions, quizzes,
                   quiz_submissions, grades, attendance, calendar_events,
                   notifications, cres, pre_courses>>
    /\ UNCHANGED <<current_enrollment, assign_req, updated_at, rnow>>
    /\ UNCHANGED NotRoute

\* courses.update_one({"_id": course_id}, {"$inc": {"current_enrollment": n}}),
\* which matches nothing when the course is gone
Inc(c, n) ==
    IF courses[c].exists
    THEN [current_enrollment EXCEPT ![c] = @ + n]
    ELSE current_enrollment

\* enroll_in_course: the counter update and the 201 response
EnrollInc(s) ==
    /\ enroll_req[s].pc = "inc"
    /\ current_enrollment' = Inc(enroll_req[s].course_id, 1)
    /\ enroll_req' = Respond(s, 201)
    /\ UNCHANGED <<casVars, assign_req, updated_at, rnow>>
    /\ UNCHANGED NotRoute

\* drop_course: enrollments.find_one({student_id, course_id, status: "enrolled"})
DropFind(s, c) ==
    /\ enroll_req[s].pc = "idle"
    /\ users[s].exists
    /\ enroll_req' =
          IF Row(s, c, "enrolled") \in enrollments
          THEN Goto(s, c, "set_dropped", <<Row(s, c, "enrolled")>>)
          ELSE Respond(s, 404)
    /\ UNCHANGED <<casVars, current_enrollment, assign_req, updated_at, rnow>>
    /\ UNCHANGED NotRoute

\* drop_course: enrollments.update_one({"_id": ...}, {"$set": {"status": "dropped"}})
DropSet(s) ==
    /\ enroll_req[s].pc = "set_dropped"
    /\ LET c == enroll_req[s].course_id IN
        /\ enrollments' = SetStatus(enrollments, enroll_req[s].existing[1], "dropped")
        /\ enroll_req' = Goto(s, c, "dec", <<>>)
    /\ UNCHANGED <<users, courses, assignments, assignment_submissions, quizzes,
                   quiz_submissions, grades, attendance, calendar_events,
                   notifications, cres, pre_courses>>
    /\ UNCHANGED <<current_enrollment, assign_req, updated_at, rnow>>
    /\ UNCHANGED NotRoute

\* drop_course: the counter update and the 200 response
DropDec(s) ==
    /\ enroll_req[s].pc = "dec"
    /\ current_enrollment' = Inc(enroll_req[s].course_id, -1)
    /\ enroll_req' = Respond(s, 200)
    /\ UNCHANGED <<casVars, assign_req, updated_at, rnow>>
    /\ UNCHANGED NotRoute

\* the three collections assign_teacher_operations writes
AssignStore == [courses |-> courses, users |-> users, updated_at |-> updated_at]

\* mutant: updated_at counts the executions
Stamp_Counter(prev, at) == prev + 1

\* {"$set": {..., "updated_at": datetime.utcnow()}}
Stamp(prev, at) == at

\* if old_teacher_id and old_teacher_id != teacher_object_id:
\*     users.update_one({"_id": old_teacher_id}, {"$pull": {"courses_teaching": c}})
PullOld(us, c, t, old) ==
    IF old # None /\ old # t /\ us[old].exists
    THEN [us EXCEPT ![old].courses_teaching = @ \ {c}]
    ELSE us

\* users.update_one({"_id": t}, {"$addToSet": {"courses_teaching": c}})
AddToSet(us, c, t) ==
    IF us[t].exists THEN [us EXCEPT ![t].courses_teaching = @ \cup {c}] ELSE us

\* assign_teacher_operations(session) run at time `at`; `old` is the
\* teacher_id of the course document the route read before the transaction
AssignTeacherOperations(S, c, t, old, at) ==
    [courses |-> IF S.courses[c].exists
                 THEN [S.courses EXCEPT ![c].teacher_id = t]
                 ELSE S.courses,
     users |-> PullOld(AddToSet(S.users, c, t), c, t, old),
     updated_at |-> IF S.courses[c].exists
                    THEN [S.updated_at EXCEPT ![c] = Stamp(@, at)]
                    ELSE S.updated_at]

\* the course the admin requests are about
AssignCourses == {"c1"}

IdleAssign == [pc |-> "idle", course_id |-> None, teacher_id |-> None,
               old_teacher_id |-> None]

\* assign_teacher_to_course: users.find_one({"_id": teacher_id, "role": "teacher"})
AssignFindTeacher(h, c, t) ==
    /\ assign_req[h].pc = "idle"
    /\ assign_req' = [assign_req EXCEPT ![h] =
          IF users[t].exists /\ Role(t) = "teacher"
          THEN [IdleAssign EXCEPT !.pc = "find_course", !.course_id = c, !.teacher_id = t]
          ELSE IdleAssign]
    /\ UNCHANGED <<casVars, enroll_req, current_enrollment, updated_at, rnow>>
    /\ UNCHANGED NotRoute

\* assign_teacher_to_course: course = courses.find_one({"_id": course_id})
AssignFindCourse(h) ==
    /\ assign_req[h].pc = "find_course"
    /\ LET c == assign_req[h].course_id IN
        assign_req' = [assign_req EXCEPT ![h] =
          IF courses[c].exists
          THEN [@ EXCEPT !.pc = "transaction",
                         !.old_teacher_id = courses[c].teacher_id]
          ELSE IdleAssign]
    /\ UNCHANGED <<casVars, enroll_req, current_enrollment, updated_at, rnow>>
    /\ UNCHANGED NotRoute

\* assign_teacher_to_course: safe_execute_transaction([assign_teacher_operations])
\* commits and the route answers 200
AssignCommit(h) ==
    /\ assign_req[h].pc = "transaction"
    /\ LET r == assign_req[h]
           S == AssignTeacherOperations(AssignStore, r.course_id, r.teacher_id,
                                        r.old_teacher_id, rnow)
       IN  /\ courses' = S.courses
           /\ users' = S.users
           /\ updated_at' = S.updated_at
    /\ assign_req' = [assign_req EXCEPT ![h] = IdleAssign]
    /\ UNCHANGED <<dependents, cres, pre_courses>>
    /\ UNCHANGED <<enroll_req, current_enrollment, rnow>>
    /\ UNCHANGED NotRoute

\* time passes between two requests or two attempts
RouteTick ==
    /\ rnow + 1 \in Times
    /\ rnow' = rnow + 1
    /\ UNCHANGED <<casVars, enroll_req, current_enrollment, assign_req, updated_at>>
    /\ UNCHANGED NotRoute

\* no request in flight
RouteInitState ==
    /\ enroll_req = [s \in StudentIds |-> IdleRequest]
    /\ assign_req = [h \in Callers |-> IdleAssign]
    /\ updated_at = [c \in CourseIds |-> 0]
    /\ rnow = 0

\* two courses taught by t1, the four users, no dependent document but the
\* enrollments
RouteSeed ==
    /\ courses = [c \in CourseIds |->
                    [exists |-> TRUE, teacher_id |-> "t1", enrolled_students |-> {}]]
    /\ users = [u \in UserIds |->
                  [exists |-> TRUE,
                   courses_teaching |-> IF u = "t1" THEN CourseIds ELSE {},
                   enrolled_courses |-> {}]]
    /\ assignments = {} /\ assignment_submissions = {}
    /\ quizzes = {} /\ quiz_submissions = {} /\ grades = {} /\ attendance = {}
    /\ calendar_events = {} /\ notifications = {}
    /\ cres = NoResult
    /\ pre_courses = courses

EnrollSteps ==
    \/ \E s \in StudentIds, c \in CourseIds : EnrollFindCourse(s, c)
    \/ \E s \in StudentIds : EnrollFindExisting(s)
    \/ \E s \in StudentIds : EnrollInsert(s)
    \/ \E s \in StudentIds : EnrollReactivate(s)
    \/ \E s \in StudentIds : EnrollInc(s)
    \/ \E s \in StudentIds, c \in CourseIds : DropFind(s, c)
    \/ \E s \in StudentIds : DropSet(s)
    \/ \E s \in StudentIds : DropDec(s)
    \/ \E c \in CourseIds : CascadeDeleteCourse(c)
    \/ \E s \in StudentIds : CascadeDeleteUser(s)

AssignSteps ==
    \/ \E h \in Callers, c \in AssignCourses, t \in TeacherIds :
            AssignFindTeacher(h, c, t)
    \/ \E h \in Callers : AssignFindCourse(h)
    \/ \E h \in Callers : AssignCommit(h)
    \/ RouteTick
    \/ \E c \in CourseIds : CascadeDeleteCourse(c)
    \/ \E t \in TeacherIds : CascadeDeleteUser(t)

\* the routes at rest, for the specifications of the other subsystems
RouteQuiet == RouteInitState /\ current_enrollment = [c \in CourseIds |-> 0]

(***************************************************************************)
(* Specifications: one per subsystem                                       *)
(***************************************************************************)
OptInit ==
    OptInitState /\ LockInitState /\ TxnQuiet /\ CasQuiet /\ PlanNoCalls /\ CacheQuiet
    /\ PageQuiet /\ MonitorInitState /\ RouteQuiet
SpecOpt == OptInit /\ [][OptSteps]_vars
SpecOptLive == SpecOpt /\ OptFairness
SpecOptFault == OptInit /\ [][OptSteps \/ OptFaultSteps]_vars

LockInit ==
    LockInitState /\ OptQuiet /\ TxnQuiet /\ CasQuiet /\ PlanNoCalls /\ CacheQuiet
    /\ PageQuiet /\ MonitorInitState /\ RouteQuiet
SpecLock == LockInit /\ [][LockSteps]_vars
SpecLockCrash == LockInit /\ [][LockSteps \/ \E p \in Callers : LockCrash(p)]_vars

TxnInit ==
    TxnInitState /\ OptQuiet /\ LockInitState /\ CasQuiet /\ PlanNoCalls /\ CacheQuiet
    /\ PageQuiet /\ MonitorInitState /\ RouteQuiet
SpecTxn == TxnInit /\ [][TxnSteps]_vars

CasInit ==
    CasInitState /\ OptQuiet /\ LockInitState /\ TxnQuiet /\ PlanNoCalls /\ CacheQuiet
    /\ PageQuiet /\ MonitorInitState /\ RouteQuiet
SpecCascade == CasInit /\ [][CasSteps]_vars

PlanInit ==
    PlanInitState /\ PlanNoCalls /\ OptQuiet /\ LockInitState /\ TxnQuiet /\ CacheQuiet
    /\ PageQuiet /\ MonitorInitState /\ RouteQuiet
SpecPlan == PlanInit /\ [][PlanSteps]_vars

CacheInit ==
    CacheInitState /\ OptQuiet /\ LockInitState /\ TxnQuiet /\ CasQuiet /\ PlanNoCalls
    /\ PageQuiet /\ MonitorInitState /\ RouteQuiet
SpecCache == CacheInit /\ [][CacheSteps]_vars

\* the process-wide query_cache = QueryCache(): the default TTL, one unit here
ThreadInit ==
    CacheQuiet /\ OptQuiet /\ LockInitState /\ TxnQuiet /\ CasQuiet /\ PlanNoCalls
    /\ PageQuiet /\ MonitorInitState /\ RouteQuiet
SpecCacheThreads == ThreadInit /\ [][ThreadSteps]_vars
SpecCacheStale == ThreadInit /\ [][StaleSteps]_vars

\* one thread calling a function wrapped by cached_query
MemoSteps ==
    \/ \E k \in CacheKeys, result \in FuncResults : CachedQuery(k, result)
    \/ \E pattern \in Patterns : CacheInvalidatePattern(pattern)
    \/ CacheTick
SpecCacheMemo == CacheInit /\ [][MemoSteps]_vars

PageInit ==
    PageInitState /\ OptQuiet /\ LockInitState /\ TxnQuiet /\ CasQuiet /\ PlanNoCalls
    /\ CacheQuiet /\ MonitorInitState /\ RouteQuiet
SpecPage == PageInit /\ [][PageSteps]_vars

MonitorInit ==
    MonitorInitState /\ OptQuiet /\ LockInitState /\ TxnQuiet /\ CasQuiet /\ PlanNoCalls
    /\ CacheQuiet /\ PageQuiet /\ RouteQuiet
SpecMonitor == MonitorInit /\ [][MonitorSteps]_vars

\* two courses with their teacher, the students, and the enrollments and
\* counters of a seed in which each counter is the number of enrolled rows
EnrollInit ==
    /\ RouteSeed
    /\ enrollments \in {{}, {Row("s1", "c1", "enrolled"), Row("s2", "c1", "dropped")}}
    /\ RouteInitState
    /\ current_enrollment = [c \in CourseIds |-> Cardinality(Enrolled(c))]
    /\ OptQuiet /\ LockInitState /\ TxnQuiet /\ PlanNoCalls /\ CacheQuiet
    /\ PageQuiet /\ MonitorInitState
SpecEnroll == EnrollInit /\ [][EnrollSteps]_vars

\* the seeded courses and teachers
AssignInit ==
    /\ RouteSeed
    /\ enrollments = {}
    /\ RouteInitState
    /\ current_enrollment = [c \in CourseIds |-> 0]
    /\ OptQuiet /\ LockInitState /\ TxnQuiet /\ PlanNoCalls /\ CacheQuiet
    /\ PageQuiet /\ MonitorInitState
SpecAssign == AssignInit /\ [][AssignSteps]_vars

OptAllIdle == \A p \in Callers : opc[p] = "idle"

\* C1: optimistic CAS safety.  For every version v at most one conditional
\* write moved the document from v to v+1; every write the store applied
\* expected exactly the version that was stored at that moment; the document's
\* version is its initial version plus the number of applied writes, and once
\* every call has returned that number is the number of successful calls.
C1_CasSafety ==
    /\ \A a, b \in applied : a.expected = b.expected => a = b
    /\ \A a \in applied : a.stored = a.expected /\ a.to = a.expected + 1
    /\ GetVersion(doc) = version0 + Cardinality(applied)
    /\ {a.expected : a \in applied} = version0 .. (GetVersion(doc) - 1)
    /\ OptAllIdle => successes = Cardinality(applied)

\* C1 witness: two concurrent calls both succeeded after one of them lost a
\* compare-and-swap to the other.
C1_Witness ==
    /\ OptAllIdle
    /\ refused > 0
    /\ Cardinality({a.by : a \in applied}) = 2
    /\ successes >= 2

LockAllIdle == \A p \in Callers : lpc[p] = "idle"

\* C2: lock mutual exclusion.  Two calls on the same lock_key whose rows have
\* not expired are never both executing their operation body, and at most one
\* live row exists per lock_key.
C2_MutualExclusion ==
    /\ \A p, q \in Callers :
          (/\ p # q
           /\ lpc[p] = "body" /\ lpc[q] = "body"
           /\ lock_doc[p].lock_key = lock_doc[q].lock_key
           /\ Live(lock_doc[p], now) /\ Live(lock_doc[q], now)) => FALSE
    /\ \A k \in LockKeys :
          Cardinality({r \in locks : r.lock_key = k /\ Live(r, now)}) <= 1

\* C9: guaranteed release.  A call that has returned, normally or with an
\* exception, has left no row of its own behind, and once no call on a
\* lock_key is in flight no row remains for that lock_key.
C9_LockReleased ==
    /\ \A p \in Callers :
          lpc[p] = "idle" => ~(\E r \in locks : r.id = lock_doc[p].id)
    /\ \A k \in LockKeys :
          (\A p \in Callers : lpc[p] = "idle" \/ lock_doc[p].lock_key # k)
              => ~(\E r \in locks : r.lock_key = k)

\* C9 witness: two calls on one lock_key have both returned, one after its
\* body raised and one normally, and the collection is empty.
C9_Witness ==
    /\ LockAllIdle
    /\ \E p, q \in Callers :
          /\ lret[p] = "BodyError" /\ lret[q] = "returned"
          /\ lock_doc[p].lock_key = lock_doc[q].lock_key
          /\ inserts[p] = 1 /\ inserts[q] = 1
    /\ locks = {}

\* C10: lock contention is an error.  A call whose insert_one ran while a
\* live row of another call held the lock_key fails with the lock-contention
\* error after that single insert and never executes its body.
C10_ContentionIsError ==
    \A p \in Callers :
        (contended[p] /\ lpc[p] # "insert") =>
            /\ inserts[p] = 1
            /\ lpc[p] # "body"
            /\ lpc[p] = "release" => lexc[p] = "OperationFailure"
            /\ lpc[p] = "idle" => lret[p] = "OperationFailure"

TxnReturned == tpc = "idle" /\ tcalls > 0

\* C3: transaction atomicity.  If an operation of the list raised a
\* non-transient error during the call, then once the call has returned every
\* document the operations write has its pre-call state.
C3_FatalLeavesNoEffect ==
    (TxnReturned /\ \E j \in 1..Len(tlog) : tlog[j].outcome = "fatal")
        => \A k \in WriteKeys : tstore[k] = tpre[k]

\* C6: no retry after a non-transient failure.  An operation that raised a
\* non-transient error is the last operation the call executed: the call has
\* returned {success: false, error} and started the list no further time.
C6_NoRetryAfterFatal ==
    \A j \in 1..Len(tlog) :
        tlog[j].outcome = "fatal" =>
            /\ j = Len(tlog)
            /\ tpc = "idle"
            /\ ~tret.success /\ tret.error = "fatal"
            /\ starts = tlog[j].attempt + 1

\* C7: bounded retry.  One call starts the operation list at most max_retries
\* times, every start runs the list from its first operation, and a call whose
\* attempts all failed has returned {success: false, error} after exactly
\* max_retries starts.
C7_BoundedRetry ==
    /\ starts <= t_max_retries
    /\ tpc # "idle" => t_attempt < t_max_retries /\ starts \in {t_attempt, t_attempt + 1}
    /\ \A j \in 1..Len(tlog) :
          (j = 1 \/ tlog[j - 1].attempt # tlog[j].attempt) => tlog[j].idx = 1
    /\ TxnReturned =>
          /\ tret.success \in BOOLEAN
          /\ tret.success => tret.attempt = starts /\ tret.error = None
          /\ ~tret.success => starts = t_max_retries /\ tret.error # None

\* C7 witness: a call with max_retries >= 2 on a two-operation list whose
\* attempts all hit transient failures, one of them at the second operation,
\* has returned failure.
C7_Witness ==
    /\ TxnReturned
    /\ ~tret.success
    /\ t_max_retries >= 2
    /\ starts = t_max_retries
    /\ Len(operations) = 2
    /\ \E j \in 1..Len(tlog) : tlog[j].idx = 2 /\ tlog[j].outcome = "transient"
    /\ \A j \in 1..Len(tlog) : tlog[j].outcome # "fatal"

\* C8: order, session and results.  Within one attempt the operations are
\* executed in list order, each with the session of that attempt, and a
\* successful call returns one result per operation, results[i] being the
\* value operations[i] returned.
C8_OrderAndResults ==
    /\ \A j \in 2..Len(tlog) :
          tlog[j - 1].attempt = tlog[j].attempt =>
              /\ tlog[j].idx = tlog[j - 1].idx + 1
              /\ tlog[j].session = tlog[j - 1].session
              /\ tlog[j - 1].outcome = "ok"
    /\ tpc \in {"op", "commit"} =>
          /\ Len(results) = t_i - 1
          /\ \A j \in 1..Len(tlog) :
                tlog[j].attempt = t_attempt => tlog[j].session = session
    /\ \A i \in 1..Len(results) :
          /\ results[i][1] = operations[i].kind
          /\ results[i][2] = operations[i].key
    /\ (TxnReturned /\ tret.success) =>
          /\ Len(tret.results) = Len(operations)
          /\ \A i \in 1..Len(operations) :
                /\ tret.results[i][1] = operations[i].kind
                /\ tret.results[i][2] = operations[i].key
                /\ operations[i].kind = "write" =>
                      tret.results[i][3] =
                          tpre[operations[i].key]
                          + Cardinality({j \in 1..i : operations[j] = operations[i]})
          /\ \A i \in 1..Len(operations) :
                \E j \in 1..Len(tlog) :
                    /\ tlog[j].attempt = t_attempt /\ tlog[j].idx = i
                    /\ tlog[j].outcome = "ok" /\ tlog[j].session = session

\* C8 witness: a call on a list of two different operations succeeded on a
\* later attempt than the first.
C8_Witness ==
    /\ TxnReturned
    /\ tret.success
    /\ tret.attempt >= 2
    /\ Len(operations) = 2
    /\ operations[1] # operations[2]

\* C4: after a cascade delete of a course C has succeeded, no enrollment,
\* assignment, assignment submission, quiz, quiz submission, grade, attendance
\* record, calendar event or notification refers to C, the course record is
\* gone, the list of courses taught by the teacher the course named does not
\* contain C, and no user's list of enrolled courses contains C.
C4_CourseCascadeComplete ==
    (cres.op = "course" /\ cres.ok) =>
        LET C == cres.id
            T == cres.teacher_id
        IN  /\ ~courses[C].exists
            /\ \A e \in enrollments : e.course_id # C
            /\ \A a \in assignments : a.course_id # C
            /\ \A x \in assignment_submissions : x.course_id # C
            /\ \A q \in quizzes : q.course_id # C
            /\ \A x \in quiz_submissions : x.course_id # C
            /\ \A g \in grades : g.course_id # C
            /\ \A a \in attendance : a.course_id # C
            /\ \A e \in calendar_events : e.course_id # C
            /\ \A n \in notifications : n.related_course_id # C
            /\ T \in UserIds => C \notin users[T].courses_teaching
            /\ \A u \in UserIds : C \notin users[u].enrolled_courses

\* a course with a teacher, an assignment and a submission to it was deleted
C4_Witness ==
    /\ cres.op = "course" /\ cres.ok
    /\ cres.teacher_id \in TeacherIds
    /\ cres.counts.assignments = 1
    /\ cres.counts.assignment_submissions = 1

\* C5: after a cascade delete of a teacher has succeeded, every course record
\* still exists as before, except that teacher_id is cleared on exactly the
\* courses that named the teacher; the result lists the course codes of those
\* courses and their number.
C5_TeacherDeleteKeepsCourses ==
    (cres.op = "user" /\ cres.ok /\ Role(cres.id) = "teacher") =>
        LET assigned == {c \in CourseIds :
                            pre_courses[c].exists /\ pre_courses[c].teacher_id = cres.id}
        IN  /\ \A c \in CourseIds :
                  courses[c] = IF c \in assigned
                               THEN [pre_courses[c] EXCEPT !.teacher_id = None]
                               ELSE pre_courses[c]
            /\ cres.assigned_courses = {CourseCode(c) : c \in assigned}
            /\ cres.courses_unassigned = Cardinality(assigned)

\* a teacher with an assigned course was deleted while another course keeps
\* its own teacher
C5_Witness ==
    /\ cres.op = "user" /\ cres.ok /\ Role(cres.id) = "teacher"
    /\ cres.courses_unassigned >= 1
    /\ \E c \in CourseIds : courses[c].exists /\ courses[c].teacher_id \in TeacherIds

\* the conditional writes the store applied on behalf of the last call of p
AppliedBy(p) == {a \in applied : a.by = p /\ a.call = ocalls[p]}

OptFinished(p) == opc[p] = "idle" /\ ocalls[p] > 0

\* C11: a call on a document id that does not exist reads the absent document
\* once and fails at once with the not-found error: it never starts a second
\* attempt, never issues the conditional write, and returns ValueError.
C11_NotFoundImmediate ==
    ~doc.exists =>
        \A p \in Callers :
            /\ attempt[p] = 0
            /\ opc[p] \notin {"write", "reread"}
            /\ (OptFinished(p) /\ max_retries[p] > 0) => oret[p] = "ValueError"

\* C12: exactly one update per successful call.  A call that returned success
\* has had exactly one conditional write applied on its behalf, and a call
\* that failed has had none, also when a find_one of the call can fail.
C12_ExactlyOncePerCall ==
    \A p \in Callers :
        OptFinished(p) =>
            IF oret[p] = "success"
            THEN Cardinality(AppliedBy(p)) = 1
            ELSE AppliedBy(p) = {}

\* C13: termination under contention.  A call in flight is on an attempt
\* below max_retries, a call that finished on an existing document without
\* any of its writes being applied failed with OptimisticLockException, and
\* every call in flight eventually returns.
C13_Terminates ==
    /\ [](\A p \in Callers :
            /\ opc[p] # "idle" => attempt[p] < max_retries[p]
            /\ (OptFinished(p) /\ doc.exists /\ AppliedBy(p) = {})
                  => oret[p] = "OptimisticLockException")
    /\ \A p \in Callers : (opc[p] # "idle") ~> (opc[p] = "idle")

\* a call lost the compare-and-swap on each of its two attempts to the other
\* caller and failed with OptimisticLockException
C13_Witness ==
    \E p \in Callers :
        /\ OptFinished(p) /\ oret[p] = "OptimisticLockException"
        /\ max_retries[p] = 2 /\ attempt[p] = 1
        /\ doc.exists /\ doc.version # NoVersion
        /\ refused >= 2
        /\ AppliedBy(p) = {}

\* C14: version monotonicity.  The version is a non-negative integer that is
\* never below the version the document started with, every applied write
\* raised it by exactly one, and the document a successful call returns
\* carries the version that call wrote.
C14_VersionMonotone ==
    /\ GetVersion(doc) \in Nat
    /\ GetVersion(doc) >= version0
    /\ \A a \in applied : a.to = a.stored + 1
    /\ \A p \in Callers :
          (OptFinished(p) /\ oret[p] = "success") =>
              \A a \in AppliedBy(p) : updated_doc[p] = a.to

PlanLen == Len(PlanOf(croot))

\* the documents a delete statement of the plan of r would still match in v
PlanDependents(v, r, l) ==
    UNION {Matching(v, PlanOf(r)[i], r.id, l) :
              i \in {j \in 1..Len(PlanOf(r)) : PlanOf(r)[j].op = "delete"}}

\* the back-references to r that the plan of r clears and v still holds
PlanBackRefs(v, r, l) ==
    CASE r.kind = "course" ->
            {u \in UserIds :
                \/ r.id \in v.users[u].enrolled_courses
                \/ u = l.doc.teacher_id /\ r.id \in v.users[u].courses_teaching}
      [] r.kind = "user" ->
            {c \in CourseIds :
                \/ v.courses[c].exists /\ v.courses[c].teacher_id = r.id
                \/ r.id \in v.courses[c].enrolled_students}
      [] r.kind = "assignment" -> {}

\* C15: cascade ordering.  Whenever the open transaction of a cascade delete
\* (course, user or assignment) sees the root absent, every statement of the
\* plan has been issued, no document the plan deletes still refers to the
\* root, and no back-reference the plan clears is left.
C15_RootDeletedLast ==
    (cpc > 0 /\ ~RootExists(cview, croot)) =>
        /\ cpc = PlanLen + 1
        /\ PlanDependents(cview, croot, clocal) = {}
        /\ PlanBackRefs(cview, croot, clocal) = {}

\* the plan of a course with enrollments and a submission has run to its end
\* and the transaction is about to commit
C15_Witness ==
    /\ cpc = PlanLen + 1 /\ croot.kind = "course"
    /\ ~RootExists(cview, croot) /\ RootExists(Store, croot)
    /\ cas_results["enrollments"] >= 1
    /\ cas_results["assignment_submissions"] >= 1

\* C16: a cascade delete on a root that does not exist fails with an error
\* whose type is not one a failing statement of the plan produces.
C16_NotFoundDistinct ==
    (cpc = 0 /\ cout.cause = "CascadeDeleteException") =>
        cout.error \notin {Wrap(e) : e \in StepErrors}

\* C17: cascade rollback.  Every step of a cascade delete other than its
\* successful return, in particular a statement or a commit that raises,
\* leaves the committed collections exactly as they were.
C17_Rollback ==
    [][(cpc' > 0 \/ ~cout'.ok) => UNCHANGED <<users, courses, dependents>>]_vars

\* the commit of a course cascade failed after every statement, the root
\* delete included, had been issued: the course and its enrollments are there
C17_Witness ==
    /\ cpc = 0 /\ cout.cause = "StoreError" /\ cout.at = PlanLen + 1
    /\ croot.kind = "course" /\ RootExists(Store, croot)
    /\ \E e \in enrollments : e.course_id = croot.id

RefersToCourse(coll, d, c) ==
    IF coll = "notifications" THEN d.related_course_id = c ELSE d.course_id = c

\* C18: cascade result counts.  When the plan of a course has run, `results`
\* holds for every collection the number of its documents that referred to
\* the course before the call, and course_deleted is true; after the call
\* returned, a paginated query for the course finds no row.
C18_ResultCounts ==
    /\ (cpc = PlanLen + 1 /\ croot.kind = "course") =>
          /\ \A coll \in Collections :
                cas_results[coll] =
                    Cardinality({d \in Store[coll] : RefersToCourse(coll, d, croot.id)})
          /\ cas_results["root_deleted"]
    /\ (cpc = 0 /\ cout.ok /\ croot.kind = "course") =>
          /\ PaginateCourseById(croot.id).data = {}
          /\ PaginateCourseById(croot.id).total_count = 0

\* a course with two enrollments and one assignment that has one submission
\* was deleted
C18_Witness ==
    /\ cpc = 0 /\ cout.ok /\ croot.kind = "course"
    /\ cout.results["enrollments"] = 2
    /\ cout.results["assignments"] = 1
    /\ cout.results["assignment_submissions"] = 1
    /\ cout.results["root_deleted"]

\* C19: a cascade delete that failed on a store error had been retried: it
\* started more than one transaction.
C19_TransientRetried ==
    (cpc = 0 /\ cout.cause \in StepErrors) => cattempts > 1

\* C20: cache TTL.  A set stores the value with the current time.  A get of a
\* key whose entry is younger than the TTL returns the stored value and keeps
\* the entry; a get of a key whose entry is TTL old or older returns a miss and
\* removes the entry; a get of a key without entry is a miss.  The passage of
\* time alone never changes the cache.
C20_CacheTTL ==
    /\ [](/\ clast.op = "set" => cache[clast.key] = Entry(clast.value, clast.at)
          /\ clast.op = "get" =>
                LET e == clast.found IN
                    /\ ~e.present => clast.ret = None
                    /\ (e.present /\ clast.at - e.timestamp < ttl) =>
                          clast.ret = e.data /\ cache[clast.key] = e
                    /\ (e.present /\ clast.at - e.timestamp >= ttl) =>
                          clast.ret = None /\ ~cache[clast.key].present)
    /\ [][cnow' # cnow => cache' = cache]_vars

\* a get returned the stored value just before the TTL had elapsed
C20_Witness ==
    /\ clast.op = "get" /\ clast.found.present
    /\ clast.at - clast.found.timestamp = ttl - 1 /\ ttl = 2
    /\ clast.ret = clast.found.data

\* the key is written as some prefix, then the pattern, then some suffix
IsSubstring(pattern, k) ==
    \E i \in 0..Len(k), j \in 1..(Len(k) + 1) :
        SubSeq(k, 1, i) \o pattern \o SubSeq(k, j, Len(k)) = k

\* C21: invalidate_pattern(p) removes every entry whose key contains p as a
\* substring and leaves every other entry as the call found it: same key, same
\* value, same stored timestamp; keys without entry stay without entry.
C21_InvalidateFrame ==
    clast.op = "invalidate_pattern" =>
        \A k \in CacheKeys :
            cache[k] = IF IsSubstring(clast.key, k) THEN NoEntry ELSE clast.before[k]

\* invalidate_pattern("1") found entries under "c1", "c2" and "u1": it removed
\* "c1" and "u1", whose keys end with the pattern, and kept "c2"
C21_Witness ==
    /\ clast.op = "invalidate_pattern" /\ clast.key = <<"1">>
    /\ \A k \in CacheKeys : clast.before[k].present
    /\ ~cache[<<"c", "1">>].present /\ ~cache[<<"u", "1">>].present
    /\ cache[<<"c", "2">>] = clast.before[<<"c", "2">>]

\* C22: the shared cache under concurrent requests.  No call of get, set or
\* invalidate_pattern ends in an error, however the calls of the request
\* threads interleave.
C22_NoCallFails ==
    \A p \in Threads : qthreads[p].err = None

\* C23: no stale cached read survives a write.  Once a writing route has
\* committed its write and its invalidate_pattern calls have returned, no
\* entry whose key matches one of the invalidated patterns holds a value that
\* was computed from the data as it was before that write.
C23_NoStaleEntry ==
    \A p \in Threads :
        LET t == qthreads[p] IN
        (t.pc = "idle" /\ t.op = "write" /\ t.err = None) =>
            \A k \in CacheKeys, i \in 1..Len(t.patterns) :
                (cache[k].present /\ Contains(k, t.patterns[i])) =>
                    cache[k].data >= t.value

\* the documents the last call's filter or pipeline selects
Selected ==
    IF pcall.fn = "paginate_query" THEN Filter(pcall.query, pcoll)
    ELSE IF pcall.pipeline_arg = <<>> THEN pcoll
    ELSE {d \in pcoll : d.department = MatchStage.arg}

\* C24: pagination metadata.  For page >= 1 and per_page in 1..100 both
\* paginate_query and paginate_aggregation report total_count = the number of
\* selected documents, total_pages = the least n with n * per_page >=
\* total_count, has_next = (page < total_pages), has_prev = (page > 1),
\* next_page = page + 1 exactly when has_next and prev_page = page - 1 exactly
\* when has_prev.
C24_Metadata ==
    (pcall.fn # None /\ pcall.page >= 1 /\ pcall.per_page \in 1..100) =>
        LET m == pcall.pagination IN
        /\ m.page = pcall.page /\ m.per_page = pcall.per_page
        /\ m.total_count = Cardinality(Selected)
        /\ m.total_pages * m.per_page >= m.total_count
        /\ m.total_pages >= 0
        /\ m.total_pages > 0 => (m.total_pages - 1) * m.per_page < m.total_count
        /\ m.has_next <=> (m.page < m.total_pages)
        /\ m.has_prev <=> (m.page > 1)
        /\ m.next_page = (IF m.has_next THEN <<m.page + 1>> ELSE <<>>)
        /\ m.prev_page = (IF m.has_prev THEN <<m.page - 1>> ELSE <<>>)

\* page 1 with per_page 2 of a 5-document listing: 2 items, 3 pages
C24_Witness ==
    /\ pcall.fn = "paginate_query" /\ pcall.query = <<>>
    /\ Cardinality(pcoll) = 5 /\ pcall.page = 1 /\ pcall.per_page = 2
    /\ Len(pcall.data) = 2
    /\ pcall.pagination.total_pages = 3
    /\ pcall.pagination.has_next /\ ~pcall.pagination.has_prev

Min(a, b) == IF a < b THEN a ELSE b
Max(a, b) == IF a > b THEN a ELSE b
Range(f) == {f[i] : i \in DOMAIN f}

\* the number of items page p has to hold
PageLength(p, per_page, total_count) ==
    Min(per_page, Max(0, total_count - (p - 1) * per_page))

RECURSIVE SumOfPages(_, _, _)
SumOfPages(n, per_page, total_count) ==
    IF n = 0 THEN 0
    ELSE PageLength(n, per_page, total_count) + SumOfPages(n - 1, per_page, total_count)

\* C25: pagination coverage on an unchanging collection.  Page p of
\* paginate_query holds exactly min(per_page, max(0, total_count - (p-1) *
\* per_page)) items, these lengths add up to total_count over the pages
\* 1..total_pages, and two different pages of the same listing share no item.
C25_PagesPartition ==
    pcall.fn = "paginate_query" =>
        LET m == pcall.pagination IN
        /\ Len(pcall.data) = PageLength(m.page, m.per_page, m.total_count)
        /\ SumOfPages(m.total_pages, m.per_page, m.total_count) = m.total_count
        /\ (pprev.page # 0 /\ pprev.page # pcall.page) =>
              Range(pprev.data) \cap Range(pcall.data) = {}

\* C26: paginate_aggregation leaves the caller's pipeline as it was.  After
\* the call the list passed in holds the stages it held before; the count
\* query ran the caller's stages followed by the count stage only, with no
\* $skip and no $limit; the page query ran the caller's stages followed by
\* $skip and $limit.
C26_PipelineUntouched ==
    pcall.fn = "paginate_aggregation" =>
        /\ pipeline = pcall.pipeline_arg
        /\ pcall.count_pipeline = pcall.pipeline_arg \o <<CountStage>>
        /\ \A i \in DOMAIN pcall.count_pipeline :
              pcall.count_pipeline[i].op \notin {"$skip", "$limit"}
        /\ pcall.paginated_pipeline =
              pcall.pipeline_arg \o <<SkipStage((pcall.page - 1) * pcall.per_page),
                                      LimitStage(pcall.per_page)>>

\* page 2 of a one-stage pipeline was fetched, one item per page
C26_Witness ==
    /\ pcall.fn = "paginate_aggregation" /\ pcall.pipeline_arg = <<MatchStage>>
    /\ pcall.page = 2 /\ pcall.per_page = 1
    /\ pipeline = <<MatchStage>>
    /\ Len(pcall.data) = 1 /\ pcall.pagination.total_count = 2

\* C27: monitoring is purely observational.  A call of a function wrapped by
\* monitor_query_performance ends as the function itself ended: it returns
\* when the function returned and raises the function's exception when the
\* function raised, whatever happens inside record_query.
C27_Observational ==
    mcall.fn = "monitored" => mcall.wrapped = mcall.func

\* the samples of a key that were recorded within the last hours_back hours
InWindow(key, at, hours_back) ==
    SelectSeq(query_stats[key], LAMBDA x : x.timestamp >= at - hours_back)

\* C28: the performance report for hours_back aggregates the samples of that
\* window.  Per key the count is the number of samples recorded within the
\* window, the average is their mean duration and the slow-query count is the
\* number of them longer than the threshold; a key without such samples is
\* not reported; the report's slow_query_count is the number of slow samples
\* of the window.
C28_ReportAggregates ==
    mcall.fn = "report" =>
        /\ \A key \in StatKeys :
              LET window == InWindow(key, mcall.at, mcall.hours_back) IN
              IF window = <<>> THEN key \notin DOMAIN mcall.stats
              ELSE /\ key \in DOMAIN mcall.stats
                   /\ mcall.stats[key].count = Len(window)
                   /\ mcall.stats[key].avg_duration = <<SumDurations(window), Len(window)>>
                   /\ mcall.stats[key].slow_queries =
                         Cardinality({i \in DOMAIN window :
                                         window[i].duration > SlowQueryThreshold})

\* C29: crash recovery.  A row left by a holder that crashed (or is merely
\* late) does not lock its key for ever: the purge of a call on the same
\* lock_key removes every row of that key whose expires_at lies before the
\* call's start, and the call's insert is then accepted, so its own row
\* is in the collection while it runs its operation, until that row expires.
C29_CrashRecovery ==
    /\ [](\A p \in Callers :
            /\ lpc[p] = "body" => (lock_doc[p] \in locks \/ lock_doc[p].expires_at < now)
            /\ lexc[p] # "OperationFailure")
    /\ [][\A p \in Callers :
            (lpc[p] = "purge" /\ lpc'[p] = "insert") =>
                \A r \in locks :
                    (r.lock_key = lock_doc[p].lock_key
                        /\ r.expires_at < lock_doc[p].acquired_at) => r \notin locks']_vars

\* one caller crashed inside its operation, its row expired and was purged by
\* a later call on the same lock_key, which now runs its operation
C29_Witness ==
    \E p, q \in Callers :
        /\ lpc[q] = "crashed" /\ lpc[p] = "body"
        /\ lock_doc[p].lock_key = lock_doc[q].lock_key
        /\ lock_doc[q].expires_at < lock_doc[p].acquired_at
        /\ lock_doc[q] \notin locks
        /\ lock_doc[p] \in locks

\* C30: what a call removes.  A step removes a row only as the purge of a call
\* on the row's lock_key, when the row's expires_at has passed, or as the
\* release of the call that inserted the row; a row that stays is unchanged,
\* and the only row a step adds is the lock_doc of the call that inserts.
C30_LockFrame ==
    [][/\ \A r \in locks \ locks' :
             \/ \E p \in Callers :
                   /\ lpc[p] = "purge" /\ lpc'[p] = "insert"
                   /\ r.lock_key = lock_doc[p].lock_key
                   /\ r.expires_at < now
             \/ \E p \in Callers :
                   /\ lpc[p] = "release" /\ lpc'[p] = "idle"
                   /\ r.id = lock_doc[p].id /\ r.owner = p
       /\ \A r \in locks' \ locks :
             \E p \in Callers :
                 /\ lpc[p] = "insert" /\ lpc'[p] = "body"
                 /\ r = lock_doc[p]
                 /\ ~(\E x \in locks : x.id = r.id)]_vars

\* a call has purged while another call's live row of the same lock_key and
\* an unexpired row of the other lock_key were in the collection: both stayed
C30_Witness ==
    \E p, q \in Callers :
        /\ p # q /\ lpc[p] = "insert" /\ lpc[q] = "body"
        /\ lock_doc[p].lock_key = lock_doc[q].lock_key
        /\ lock_doc[q] \in locks /\ Live(lock_doc[q], now)
        /\ lock_doc[p].acquired_at > lock_doc[q].acquired_at

EnrollAllIdle == \A s \in StudentIds : enroll_req[s].pc = "idle"

\* C31: whenever no enroll_in_course or drop_course request is in flight and
\* the cascade deletes have finished, no enrollment record refers to a course
\* that has been deleted.
C31_NoOrphanEnrollment ==
    EnrollAllIdle => \A e \in enrollments : courses[e.course_id].exists

\* C38: whenever no request is in flight, every existing course's
\* current_enrollment equals the number of enrollment records of the course
\* whose status is "enrolled".
C38_CounterConsistent ==
    EnrollAllIdle =>
        \A c \in CourseIds :
            courses[c].exists => current_enrollment[c] = Cardinality(Enrolled(c))

AssignAllIdle == \A h \in Callers : assign_req[h].pc = "idle"

\* C32: whenever no assign_teacher_to_course request is in flight, a course
\* id is in a teacher's courses_teaching list only if the course exists and
\* its teacher_id is that teacher, so that no course is in two teachers' lists.
C32_BackReference ==
    AssignAllIdle =>
        \A t \in TeacherIds : \A c \in users[t].courses_teaching :
            courses[c].exists /\ courses[c].teacher_id = t

\* assign_teacher_operations executed at time at1 and again at time at2
Twice(c, t, old, at1, at2) ==
    AssignTeacherOperations(AssignTeacherOperations(AssignStore, c, t, old, at1),
                            c, t, old, at2)

OldTeachers == TeacherIds \cup {None}

\* C35 as stated: executing assign_teacher_operations twice with the same
\* arguments leaves courses and users in the same state as executing it once.
C35_Idempotent ==
    \A c \in AssignCourses, t \in TeacherIds, old \in OldTeachers :
        \A at1 \in Times, at2 \in Times :
            at1 <= at2 =>
                Twice(c, t, old, at1, at2) = AssignTeacherOperations(AssignStore, c, t, old, at1)

\* C35: executing assign_teacher_operations twice with the same arguments
\* leaves teacher_id and every courses_teaching list as one execution does,
\* and the course's updated_at holds the time of the second execution: the
\* state is that of one execution at the later time.
C35_IdempotentUpToStamp ==
    \A c \in AssignCourses, t \in TeacherIds, old \in OldTeachers :
        \A at1 \in Times, at2 \in Times :
            at1 <= at2 =>
                LET once == AssignTeacherOperations(AssignStore, c, t, old, at1)
                    twice == Twice(c, t, old, at1, at2)
                IN  /\ twice = AssignTeacherOperations(AssignStore, c, t, old, at2)
                    /\ twice.users = once.users
                    /\ \A x \in CourseIds :
                          twice.courses[x].teacher_id = once.courses[x].teacher_id

\* an assignment of t2 to a course of t1 has committed at time 1: the course
\* went from the old teacher's list to the new teacher's
C35_Witness ==
    /\ AssignAllIdle
    /\ courses["c1"].exists /\ courses["c1"].teacher_id = "t2"
    /\ "c1" \in users["t2"].courses_teaching
    /\ "c1" \notin users["t1"].courses_teaching
    /\ updated_at["c1"] = 1

\* the number of writes the operation list makes to document k
WritesTo(k) ==
    Cardinality({i \in 1..Len(operations) :
                    operations[i].kind = "write" /\ operations[i].key = k})

\* C33: when the call has returned success with attempt = k > 1, every
\* document the operations write holds its pre-call value plus the effect of
\* exactly one execution of the list: the k-1 failed attempts left nothing.
C33_ExactlyOnce ==
    (TxnReturned /\ tret.success /\ tret.attempt > 1) =>
        \A k \in WriteKeys : tstore[k] = tpre[k] + WritesTo(k)

\* a call succeeded on its second attempt after an attempt that had executed
\* a write and then failed
C33_Witness ==
    /\ TxnReturned /\ tret.success /\ tret.attempt = 2
    /\ \E j \in 1..Len(tlog) :
          /\ tlog[j].attempt = 0 /\ tlog[j].outcome = "ok"
          /\ operations[tlog[j].idx].kind = "write"

\* C34: success is reported only by the step that commits: every operation
\* of the attempt has returned, the writes of the attempt reach the store in
\* that step and the results returned are those collected; a step in which
\* the commit fails reports no success, it starts the next attempt or returns
\* {success: false}.
C34_SuccessMeansCommitted ==
    [][/\ (tret'.success /\ (~tret.success \/ tpc # "idle")) =>
            /\ tpc = "commit" /\ tpc' = "idle"
            /\ Len(results) = Len(operations)
            /\ tstore' = Flush(tstore, tbuf)
            /\ tret'.results = results
       /\ (tpc = "commit" /\ tbuf # EmptyBuf /\ tstore' = tstore) =>
            /\ ~tret'.success
            /\ tpc' = "begin" \/ (tpc' = "idle" /\ tret'.error # None)
      ]_vars

\* a call whose first attempt ran every operation and failed at commit has
\* succeeded on the second attempt
C34_Witness ==
    /\ TxnReturned /\ tret.success /\ tret.attempt = 2
    /\ Len(operations) > 0 /\ WritesTo("a") > 0
    /\ \E j \in 1..Len(tlog) :
          /\ tlog[j].attempt = 0 /\ tlog[j].idx = Len(operations)
          /\ tlog[j].outcome = "ok"

\* C36: a call on an existing document that no other caller touches succeeds
\* on its first attempt, also when the document holds no version field (read
\* as version 0), which therefore holds version 1 after its first successful
\* call; and a conditional write is
\* refused only if some applied write changed the document's version.
C36_UncontendedSucceeds ==
    /\ \A p \in Callers :
          (/\ OptFinished(p) /\ max_retries[p] > 0 /\ doc.exists
           /\ \A q \in Callers \ {p} : ocalls[q] = 0)
              => /\ oret[p] = "success"
                 /\ attempt[p] = 0
                 /\ doc.version = version0 + successes
                 /\ successes >= 1
    /\ refused > 0 => applied # {}

StudentRoot == croot.kind = "user" /\ Role(croot.id) = "student"

C39_Memoised ==
    clast.op \in {"cached_query", "cached_query_executed"} =>
        /\ (clast.found.present /\ Fresh(clast.found.timestamp, clast.at, ttl)) =>
              /\ clast.op = "cached_query"
              /\ clast.ret = clast.found.data
        /\ clast.op = "cached_query_executed" =>
              cache[clast.key] = Entry(clast.ret, clast.at)
====
